---- MODULE Spec2Model ----
(***************************************************************************)
(* A model of the retrieval-and-ingestion pipeline of the RAG backend:      *)
(* QdrantManager (vector store access and its metadata cache),             *)
(* EmbeddingManager (retry and batch fallback), SearchService (TTL cache,   *)
(* single and multi collection search), the pooled fusion of the chat API   *)
(* and DocumentUploadService (ingest and delete).                           *)
(*                                                                         *)
(* Scores are similarities in hundredths (0.3 is 30).  Python's None is the *)
(* empty tuple for an optional number and the empty string for an optional *)
(* name; both are falsy, like the values the code tests with `or`.          *)
(***************************************************************************)
EXTENDS Integers, Sequences, FiniteSets, TLC

VARIABLES
    dim,        \* Qdrant: collection name -> vector size, 0 when the collection is absent
    points,     \* Qdrant: collection name -> the set of stored points
    cache,      \* SearchService.cache: the TTLCache entries, least recently used first
    now,        \* the clock read by time.time() and by the TTLCache timer, in seconds
    sop,        \* history: the last call of SearchService.search, its inputs and outcome
    embedding_type,     \* EmbeddingManager.embedding_type, set by __init__
    collection_cache,   \* QdrantManager._collection_cache: name -> <<>> or <<info>>
    cache_timestamp,    \* QdrantManager._cache_timestamp: name -> time, 0 when unset
    changedSince,       \* history: name was created or deleted since its info was cached
    mop,        \* history: the last call of QdrantManager.get_collection_info
    dop,        \* history: the last call of upload_document or delete_document
    fop,        \* history: the last multi_collection_search or chat search
    eop,        \* history: the last call of the EmbeddingManager
    req,        \* the /search requests in flight: request -> its position in search() and its locals
    stream,     \* a streaming chat response: the generators' positions and the events sent
    recency,    \* history: the cached keys in the order of their last use (a store or a hit)
    prov     \* api/v1: the lazy singletons and the threads running their providers

storeVars  == <<dim, points>>
searchVars == <<cache, sop>>
metaVars   == <<collection_cache, cache_timestamp, changedSince, mop>>
vars == <<dim, points, cache, now, sop, embedding_type, collection_cache, cache_timestamp,
          changedSince, mop, dop, fop, eop, req, stream, recency, prov>>

----------------------------------------------------------------------------
(* Bounds of the model. *)

\* Largest top_k a search is called with.
MaxTopK == 2
\* The clock stops advancing after this many seconds.
MaxTime == 300
\* One step of the clock, in seconds.
TickSeconds == 150
\* config.CACHE_MAX_SIZE, read from the environment (default 100); the model
\* runs with a small configured size so that the cache fills.
CACHE_MAX_SIZE == 2
\* config.UPLOAD_BATCH_SIZE, read from the environment (default 100), scaled
\* down so that a document of a few chunks is upserted in several batches.
UPLOAD_BATCH_SIZE == 2
\* batch_size of create_embeddings_batch when the caller passes none (128 in
\* the code), scaled down in the same way.
EMBED_BATCH_SIZE == 2
\* limit of the scroll in delete_document (1000 in the code), scaled down:
\* the content "big" stands for a document of more chunks than the limit.
SCROLL_LIMIT == 3

----------------------------------------------------------------------------
(* Program constants. *)

CACHE_TTL_SECONDS == 300
SEARCH_SCORE_THRESHOLD == 30
VECTOR_SIZE == 1024
\* max_retries of create_embedding_with_retry when the caller passes none
MAX_RETRIES == 3
\* QdrantManager._cache_ttl
META_CACHE_TTL == 300
ENABLE_SEARCH_CACHE == TRUE
COLLECTION_NAME == "c1"

Collections == {"c1", "c2"}

\* Python's `x or default` on an optional number: None and 0 are both falsy.
NumOrDefault(x, default) == IF x = <<>> \/ x[1] = 0 THEN default ELSE x[1]

\* Python's `name or default` on an optional string: None and "" are both falsy.
NameOrDefault(name, default) == IF name = "" THEN default ELSE name

Min(a, b) == IF a < b THEN a ELSE b

----------------------------------------------------------------------------
(* EmbeddingManager.                                                        *)

\* EmbeddingManager.dimension after _init_voyage or _init_openai.
Dimension == IF embedding_type = "voyage" THEN 1024 ELSE 1536

\* What the provider returns for a text, and the substitute [0.0] * dimension.
Embedding(text) == [of |-> text, zero |-> FALSE, vdim |-> Dimension]
ZeroVector(text) == [of |-> text, zero |-> TRUE, vdim |-> Dimension]

\* A retry loop that stops one attempt early: range(max_retries - 1).
RECURSIVE RetryFromShort(_, _, _)
RetryFromShort(attempt, max_retries, failures) ==
    IF attempt >= max_retries - 1
    THEN [ok |-> FALSE, calls |-> attempt, waits |-> <<>>, error |-> "exhausted"]
    ELSE IF attempt >= failures
    THEN [ok |-> TRUE, calls |-> attempt + 1, waits |-> <<>>, error |-> "none"]
    ELSE LET r == RetryFromShort(attempt + 1, max_retries, failures)
         IN  [r EXCEPT !.waits = <<2 ^ attempt>> \o @]

\* A retry loop that sleeps after every failed attempt, the last included.
RECURSIVE RetryFromSleepingLast(_, _, _)
RetryFromSleepingLast(attempt, max_retries, failures) ==
    IF attempt >= max_retries
    THEN [ok |-> FALSE, calls |-> attempt, waits |-> <<>>, error |-> "provider"]
    ELSE IF attempt >= failures
    THEN [ok |-> TRUE, calls |-> attempt + 1, waits |-> <<>>, error |-> "none"]
    ELSE LET r == RetryFromSleepingLast(attempt + 1, max_retries, failures)
         IN  [r EXCEPT !.waits = <<2 ^ attempt>> \o @]

\* create_embedding_with_retry from attempt `attempt` on, for a text whose
\* first `failures` provider calls raise: whether a vector is returned, the
\* provider calls made, the base 2 ** attempt of each wait slept, and the
\* error raised: the provider's, re-raised by the last attempt, or the
\* exception behind the loop.
RECURSIVE RetryFrom(_, _, _)
RetryFrom(attempt, max_retries, failures) ==
    IF attempt >= max_retries
    THEN [ok |-> FALSE, calls |-> attempt, waits |-> <<>>, error |-> "exhausted"]
    ELSE IF attempt >= failures
    THEN [ok |-> TRUE, calls |-> attempt + 1, waits |-> <<>>, error |-> "none"]
    ELSE IF attempt < max_retries - 1
         THEN LET r == RetryFrom(attempt + 1, max_retries, failures)
              IN  [r EXCEPT !.waits = <<2 ^ attempt>> \o @]
         ELSE [ok |-> FALSE, calls |-> attempt + 1, waits |-> <<>>, error |-> "provider"]

CreateEmbeddingWithRetry(max_retries, failures) == RetryFrom(0, max_retries, failures)

\* create_query_embedding: one provider call, its exception propagates.
CreateQueryEmbedding(failures) == [ok |-> failures = 0, calls |-> 1, waits |-> <<>>]

\* A fallback that leaves out the texts that still fail.
FallbackEmbeddingsSkipping(batch, offset, plan) ==
    LET each == [k \in 1..Len(batch) |->
                    IF CreateEmbeddingWithRetry(MAX_RETRIES, plan.fails[offset + k]).ok
                    THEN Embedding(batch[k]) ELSE ZeroVector(batch[k])]
        Answered(e) == ~e.zero
    IN  SelectSeq(each, Answered)

\* The fallback of one failed sub-batch: each text alone, with retries, and
\* the zero vector for a text that still fails.
FallbackEmbeddings(batch, offset, plan) ==
    [k \in 1..Len(batch) |->
        IF CreateEmbeddingWithRetry(MAX_RETRIES, plan.fails[offset + k]).ok
        THEN Embedding(batch[k]) ELSE ZeroVector(batch[k])]

\* The loop of create_embeddings_batch from offset i on.  plan.batches holds
\* the offsets of the sub-batches whose batch call raises, plan.fails[n] the
\* number of single calls for the n-th text that raise before one succeeds.
RECURSIVE EmbedFrom(_, _, _, _)
EmbedFrom(texts, i, batch_size, plan) ==
    IF i >= Len(texts) THEN <<>>
    ELSE LET hi    == Min(i + batch_size, Len(texts))
             batch == SubSeq(texts, i + 1, hi)
             part  == IF i \notin plan.batches
                      THEN [k \in 1..Len(batch) |-> Embedding(batch[k])]
                      ELSE FallbackEmbeddings(batch, i, plan)
         IN  part \o EmbedFrom(texts, hi, batch_size, plan)

CreateEmbeddingsBatch(texts, batch_size, plan) == EmbedFrom(texts, 0, batch_size, plan)

NoEmbedOp ==
    [kind |-> "none", texts |-> <<>>, max_retries |-> 0, failures |-> 0, batch_size |-> 0,
     plan |-> <<>>, ok |-> FALSE, calls |-> 0, waits |-> <<>>, out |-> <<>>,
     permanent |-> FALSE, error |-> "none", sleeps |-> <<>>]

\* A call of create_embedding_with_retry(text, max_retries) during which the
\* provider raises `failures` times before it answers.  permanent: the
\* provider's error is one of authentication or configuration, which it
\* raises on every call; the except clause does not look at the error.
\* jitters[k]: what random.uniform(0.5, 1.5) gives for the k-th wait, in
\* tenths of a second; sleeps: the waits slept, in tenths of a second.
EmbedWithRetry(text, max_retries, failures, permanent, jitters) ==
    LET r == CreateEmbeddingWithRetry(max_retries, failures)
    IN  /\ permanent => failures > max_retries
        /\ eop' = [NoEmbedOp EXCEPT !.kind = "single", !.texts = <<text>>,
                       !.max_retries = max_retries, !.failures = failures,
                       !.permanent = permanent, !.error = r.error,
                       !.sleeps = [k \in 1..Len(r.waits) |-> 10 * r.waits[k] + jitters[k]],
                       !.ok = r.ok, !.calls = r.calls, !.waits = r.waits,
                       !.out = IF r.ok THEN <<Embedding(text)>> ELSE <<>>]
        /\ UNCHANGED <<dim, points, cache, now, sop, embedding_type, collection_cache,
                       cache_timestamp, changedSince, mop, dop, fop, req, stream, recency, prov>>

\* A call of create_query_embedding(query).
EmbedQuery(query, failures) ==
    LET r == CreateQueryEmbedding(failures)
    IN  /\ eop' = [NoEmbedOp EXCEPT !.kind = "query", !.texts = <<query>>,
                       !.max_retries = 1, !.failures = failures,
                       !.ok = r.ok, !.calls = r.calls, !.waits = r.waits,
                       !.out = IF r.ok THEN <<Embedding(query)>> ELSE <<>>]
        /\ UNCHANGED <<dim, points, cache, now, sop, embedding_type, collection_cache,
                       cache_timestamp, changedSince, mop, dop, fop, req, stream, recency, prov>>

\* A call of create_embeddings_batch(texts, batch_size); it never raises.
EmbedBatch(texts, batch_size, plan) ==
    /\ eop' = [NoEmbedOp EXCEPT !.kind = "batch", !.texts = texts,
                   !.max_retries = MAX_RETRIES, !.batch_size = batch_size,
                   !.plan = plan, !.ok = TRUE,
                   !.out = CreateEmbeddingsBatch(texts, batch_size, plan)]
    /\ UNCHANGED <<dim, points, cache, now, sop, embedding_type, collection_cache,
                   cache_timestamp, changedSince, mop, dop, fop, req, stream, recency, prov>>

----------------------------------------------------------------------------
(* The vector store (the Qdrant service behind QdrantManager.client).       *)
(* A point is [id, document_id, zero, vdim]: its id, the document_id of its *)
(* payload, whether its vector is the all-zero substitute, and the length   *)
(* of its vector.                                                           *)

\* hashlib.md5(content.encode()).hexdigest()[:16]: a function of the content alone.
DocIdOf(content) ==
    CASE content = "one" -> "h_one"
      [] content = "two" -> "h_two"
      [] content = "big" -> "h_big"
      [] content = "mid" -> "h_mid"
      [] content = "three" -> "h_three"
      [] OTHER -> "h_blank"

\* Ids drawn afresh at every ingest instead of computed from the chunk.
PointIdFresh(doc_id, i) == <<doc_id, i + Cardinality(points[COLLECTION_NAME])>>

\* f"{doc_id}_{i}"
PointId(doc_id, i) == <<doc_id, i>>

\* The cosine similarity Qdrant computes between the query's embedding and a
\* stored vector; the all-zero vector is similar to nothing.
BaseScore(id) ==
    CASE id = <<"h_one", 0>> -> 90
      [] id = <<"h_two", 0>> -> 20
      [] id = <<"h_two", 1>> -> 50
      [] id = <<"h_mid", 0>> -> 80
      [] id = <<"h_three", 0>> -> 95
      [] id = <<"h_three", 1>> -> 70
      [] id = <<"h_three", 2>> -> 60
      [] OTHER -> 40

\* The payload content of a stored point: the text of its chunk; none for
\* a point that was upserted without a content key.
ChunkText(id) ==
    CASE id = <<"h_one", 0>> -> "one#0"
      [] id = <<"h_two", 0>> -> "two#0"
      [] id = <<"h_two", 1>> -> "two#1"
      [] OTHER -> ""

ChunkTexts == {"one#0", "two#0", "two#1"}

\* The similarity of two chunk texts.
PairScore(x, y) ==
    CASE x = y -> 100
      [] {x, y} = {"one#0", "two#0"} -> 60
      [] {x, y} = {"one#0", "two#1"} -> 35
      [] {x, y} = {"two#0", "two#1"} -> 70
      [] OTHER -> 10

Similarity(query, p) ==
    IF p.zero THEN 0
    ELSE IF query = "q1" THEN BaseScore(p.id)
    ELSE IF query \in ChunkTexts THEN PairScore(query, ChunkText(p.id))
    ELSE 100 - BaseScore(p.id)

\* The order of Qdrant's answer: by descending score; equal scores by id.
DocOrder(d) ==
    CASE d = "h_one" -> 1 [] d = "h_two" -> 2 [] d = "h_big" -> 3
      [] d = "h_mid" -> 4 [] d = "h_three" -> 5 [] OTHER -> 6

IdBefore(a, b) ==
    \/ DocOrder(a[1]) < DocOrder(b[1])
    \/ DocOrder(a[1]) = DocOrder(b[1]) /\ a[2] < b[2]

HitBefore(x, y) == x.score > y.score \/ (x.score = y.score /\ IdBefore(x.id, y.id))

RECURSIVE TopHits(_, _)
TopHits(S, n) ==
    IF S = {} \/ n <= 0 THEN <<>>
    ELSE LET h == CHOOSE x \in S : \A y \in S \ {x} : HitBefore(x, y)
         IN  <<h>> \o TopHits(S \ {h}, n - 1)

\* client.query_points(collection, query, limit, score_threshold).points:
\* the hits with score >= score_threshold, best first, at most limit of them.
QueryPoints(name, query, limit, score_threshold) ==
    TopHits({[id |-> p.id, score |-> Similarity(query, p), document_id |-> p.document_id] :
                p \in {x \in points[name] : Similarity(query, x) >= score_threshold}}, limit)

\* QdrantManager.search: the store's answer as a list of dicts; every
\* exception of the client is logged and replaced by the empty list.
QdrantSearch(name, query, limit, score_threshold, storeFails) ==
    LET threshold == NumOrDefault(score_threshold, SEARCH_SCORE_THRESHOLD)
    IN  IF storeFails \/ dim[name] = 0 \/ dim[name] # Dimension THEN <<>>
        ELSE QueryPoints(name, query, limit, threshold)

----------------------------------------------------------------------------
(* SearchService: the TTLCache and search.                                  *)

\* hash(query): str.__hash__, one value per distinct query of the model.
HashOf(query) ==
    CASE query = "q1" -> 101
      [] query = "one#0" -> 303
      [] query = "two#0" -> 404
      [] query = "two#1" -> 505
      [] OTHER -> 202

\* f"{collection_name}:{top_k}:{hash(query)}"
CacheKey(query, top_k, collection_name) == <<collection_name, top_k, HashOf(query)>>

\* Entries that never expire.
LiveForever(e, t) == e.expires >= 0

Live(e, t) == t < e.expires

\* The value of the entry of the key that is still held and was stored the
\* TTL ago or earlier, if there is one.
ExpiredEntry(c, key, t) ==
    IF \E i \in 1..Len(c) : c[i].key = key /\ c[i].expires >= 0 /\ c[i].expires <= t
    THEN <<(c[CHOOSE i \in 1..Len(c) : c[i].key = key]).value>>
    ELSE <<>>

\* TTLCache.get(key): the value of an unexpired entry, else None.  The caller
\* only tests the answer for truth, and None is the empty list here.
CacheGet(c, key, t) ==
    IF \E i \in 1..Len(c) : c[i].key = key /\ Live(c[i], t)
    THEN (c[CHOOSE i \in 1..Len(c) : c[i].key = key]).value
    ELSE <<>>

\* A read that leaves the order of the entries as it is.
CacheTouchStill(c, key, t) == c

\* The reordering a read does: TTLCache.__getitem__ of an unexpired key moves
\* it to the most recently used end.
CacheTouch(c, key, t) ==
    IF \E i \in 1..Len(c) : c[i].key = key /\ Live(c[i], t)
    THEN LET e == c[CHOOSE i \in 1..Len(c) : c[i].key = key]
         IN  Append(SelectSeq(c, LAMBDA x : x.key # key), e)
    ELSE c

RECURSIVE PopUntilFits(_)
PopUntilFits(c) == IF Len(c) + 1 > CACHE_MAX_SIZE /\ Len(c) > 0 THEN PopUntilFits(Tail(c)) ELSE c

\* A store that forgets the time to live: the entry is expired as it is stored.
CacheSetExpired(c, key, value, t) ==
    Append(SelectSeq(c, LAMBDA x : x.key # key), [key |-> key, value |-> value, expires |-> t])

\* A store that drops every entry held before it.
CacheSetAlone(c, key, value, t) ==
    <<[key |-> key, value |-> value, expires |-> t + CACHE_TTL_SECONDS]>>

\* TTLCache.__setitem__(key, value): expired entries are removed, then the
\* least recently used ones while the cache is full, then the entry is
\* stored at the most recently used end and expires ttl seconds from now.
CacheSet(c, key, value, t) ==
    LET alive == SelectSeq(c, LAMBDA x : Live(x, t))
        has   == \E i \in 1..Len(alive) : alive[i].key = key
        rest  == SelectSeq(alive, LAMBDA x : x.key # key)
        room  == IF has THEN rest ELSE PopUntilFits(rest)
    IN  Append(room, [key |-> key, value |-> value, expires |-> t + CACHE_TTL_SECONDS])

\* SearchService._process_search_results: rank is the 1-based position.
ProcessSearchResults(results) ==
    [i \in 1..Len(results) |->
        [id |-> results[i].id, score |-> results[i].score, rank |-> i,
         document_id |-> results[i].document_id]]

\* A history that is not recorded stays as it is.
Recorded(history, record) == IF history.kind = "off" THEN history ELSE record

NoSearch ==
    [kind |-> "none", query |-> "", top_k |-> 0, collection |-> "", threshold |-> <<>>,
     use_cache |-> FALSE, ret |-> <<>>, embedCalls |-> 0, storeCalls |-> 0,
     fault |-> "none", at |-> 0, repeatOf |-> "none", sameAsFirst |-> FALSE,
     expired |-> <<>>, filteredBy |-> 0]

\* What the call being made is a repetition of: "hits" or "empty" when the
\* call before it was a search of the same key that went to the backends
\* with caching on, less than the TTL ago, and returned hits or none.
RepeatOf(key, use_cache) ==
    IF /\ sop.kind = "search" /\ use_cache /\ sop.use_cache
       /\ CacheKey(sop.query, sop.top_k, sop.collection) = key
       /\ sop.embedCalls = 1
       /\ now - sop.at < CACHE_TTL_SECONDS
    THEN (IF sop.ret = <<>> THEN "empty" ELSE "hits")
    ELSE "none"

KeysOf(c) == {c[i].key : i \in 1..Len(c)}

NoRecency == [on |-> FALSE, keys |-> <<>>, evicted |-> FALSE, victims |-> <<>>]

\* The order of last use after a search of `key` that left the cache `after`:
\* the key moves to the end when the search hit it or stored it, and the
\* keys no longer held are forgotten.  evicted: the search stored a new key
\* into a cache full of unexpired entries; victims: the entries it removed.
RecencyAfter(key, used, stored, after) ==
    IF ~recency.on THEN recency
    ELSE LET order == IF used THEN Append(SelectSeq(recency.keys, LAMBDA k : k # key), key)
                      ELSE recency.keys
         IN  [on |-> TRUE,
              keys |-> SelectSeq(order, LAMBDA k : k \in KeysOf(after)),
              evicted |-> /\ stored /\ key \notin KeysOf(cache)
                          /\ Len(cache) = CACHE_MAX_SIZE
                          /\ \A i \in 1..Len(cache) : now < cache[i].expires,
              victims |-> SelectSeq(cache, LAMBDA e : e.key \notin KeysOf(after))]

\* What search() returns and the cache it leaves; failed: an exception was
\* caught on the way (by search itself or by QdrantManager.search).
SearchEffect(query, top_k, collection_name, score_threshold, use_cache, fault) ==
    LET collection == NameOrDefault(collection_name, COLLECTION_NAME)
        threshold  == NumOrDefault(score_threshold, SEARCH_SCORE_THRESHOLD)
        caching    == use_cache /\ ENABLE_SEARCH_CACHE
        cache_key  == CacheKey(query, top_k, collection)
        cached     == CacheGet(cache, cache_key, now)
        hit        == caching /\ cached # <<>>
        results    == QdrantSearch(collection, query, top_k, <<threshold>>, fault = "store")
        embedded   == CreateQueryEmbedding(IF fault = "embed" THEN 1 ELSE 0).ok
        processed  == IF ~embedded THEN <<>> ELSE ProcessSearchResults(results)
    IN  [cache  |-> IF hit THEN CacheTouch(cache, cache_key, now)
                    ELSE IF caching /\ processed # <<>>
                         THEN CacheSet(cache, cache_key, processed, now)
                         ELSE cache,
         ret    |-> IF hit THEN cached ELSE processed,
         failed |-> ~hit /\ (fault # "none" \/ dim[collection] = 0)]

\* SearchService.search(query, top_k, collection_name, score_threshold, use_cache).
\* fault is the backend that raises if this call reaches it.
Search(query, top_k, collection_name, score_threshold, use_cache, fault) ==
    LET collection == NameOrDefault(collection_name, COLLECTION_NAME)
        threshold  == NumOrDefault(score_threshold, SEARCH_SCORE_THRESHOLD)
        caching    == use_cache /\ ENABLE_SEARCH_CACHE
        cache_key  == CacheKey(query, top_k, collection)
        cached     == CacheGet(cache, cache_key, now)
        hit        == caching /\ cached # <<>>
        results    == QdrantSearch(collection, query, top_k, <<threshold>>, fault = "store")
        embedded   == CreateQueryEmbedding(IF fault = "embed" THEN 1 ELSE 0).ok
        processed  == IF ~embedded THEN <<>> ELSE ProcessSearchResults(results)
        ret        == IF hit THEN cached ELSE processed
        rec(r, e, s, f) ==
            [kind |-> "search", query |-> query, top_k |-> top_k, collection |-> collection,
             threshold |-> score_threshold, use_cache |-> use_cache, ret |-> r,
             embedCalls |-> e, storeCalls |-> s, fault |-> f, at |-> now,
             repeatOf |-> RepeatOf(cache_key, use_cache),
             sameAsFirst |-> (r = sop.ret),
             expired |-> ExpiredEntry(cache, cache_key, now),
             filteredBy |-> IF s = 0 THEN 0
                            ELSE NumOrDefault(<<threshold>>, SEARCH_SCORE_THRESHOLD)]
    IN  /\ cache' = SearchEffect(query, top_k, collection_name, score_threshold,
                                 use_cache, fault).cache
        /\ sop' = Recorded(sop,
                      IF hit THEN rec(cached, 0, 0, "none")
                      ELSE IF ~embedded THEN rec(<<>>, 1, 0, "embed")
                      ELSE IF fault = "store" THEN rec(<<>>, 1, 1, "store")
                      ELSE IF dim[collection] = 0 THEN rec(<<>>, 1, 1, "absent")
                      ELSE rec(processed, 1, 1, "none"))
        /\ recency' = RecencyAfter(cache_key, hit \/ (caching /\ processed # <<>>),
                                   ~hit /\ caching /\ processed # <<>>,
                                   SearchEffect(query, top_k, collection_name, score_threshold,
                                                use_cache, fault).cache)
        /\ UNCHANGED <<dim, points, now, embedding_type, metaVars, dop, fop, eop, req, stream, prov>>

\* A search for exactly top_k results.
SimilarLimitExact(top_k) == top_k

\* The limit get_similar_documents searches with: one more than asked, for
\* the seed itself.
SimilarLimit(top_k) == top_k + 1

\* SearchService.get_similar_documents(document_id, top_k, collection_name):
\* the point of that id is retrieved, its content searched for, and the
\* seed left out of the results.  fault: "retrieve", "embed" or "store" when
\* that backend call raises.
GetSimilarDocuments(document_id, top_k, collection_name, fault) ==
    LET collection == NameOrDefault(collection_name, COLLECTION_NAME)
        docs    == IF fault = "retrieve" \/ dim[collection] = 0 THEN {}
                   ELSE {p \in points[collection] : p.id = document_id}
        content == IF docs = {} THEN "" ELSE ChunkText(document_id)
        key     == CacheKey(content, SimilarLimit(top_k), collection)
        effect  == SearchEffect(content, SimilarLimit(top_k), collection, <<>>, TRUE, fault)
        others  == SelectSeq(effect.ret, LAMBDA r : r.id # document_id)
        searched == docs # {} /\ content # ""
    IN  /\ cache' = IF searched THEN effect.cache ELSE cache
        /\ sop' = Recorded(sop,
                      [kind |-> "similar", seed |-> document_id, top_k |-> top_k,
                       collection |-> collection, fault |-> fault,
                       absent |-> docs = {}, content |-> content,
                       hit |-> searched /\ CacheGet(cache, key, now) # <<>>,
                       ret |-> IF searched THEN SubSeq(others, 1, Min(top_k, Len(others)))
                               ELSE <<>>])
        /\ UNCHANGED <<dim, points, now, embedding_type, metaVars, dop, fop, eop, req, stream,
                       recency, prov>>

\* SearchService.clear_cache
ClearCache ==
    /\ cache' = <<>>
    /\ sop' = Recorded(sop, NoSearch)
    /\ recency' = [recency EXCEPT !.keys = <<>>, !.evicted = FALSE, !.victims = <<>>]
    /\ UNCHANGED <<dim, points, now, embedding_type, metaVars, dop, fop, eop, req, stream, prov>>

\* Time passes.
Tick ==
    /\ now + TickSeconds <= MaxTime
    /\ now' = now + TickSeconds
    /\ UNCHANGED <<dim, points, cache, sop, embedding_type, metaVars, dop, fop, eop, req, stream, recency, prov>>

----------------------------------------------------------------------------
(* SearchService.multi_collection_search and the pooling of the chat API.   *)
(* A dict is the sequence of its items [name, results] in insertion order.  *)

NoFusion ==
    [kind |-> "none", names |-> <<>>, top_k |-> 0, failing |-> {}, embedFailed |-> FALSE,
     multi |-> <<>>, alone |-> <<>>, raised |-> FALSE, ret |-> <<>>]

EntryOf(mapping, name) == (mapping[CHOOSE i \in 1..Len(mapping) : mapping[i].name = name]).results

AllEmpty(collection_names) ==
    [i \in 1..Len(collection_names) |-> [name |-> collection_names[i], results |-> <<>>]]

\* A search loop without the handler around one collection: the failure of
\* one collection reaches the outer handler, which answers for all of them.
MultiCollectionResultsAborting(query, collection_names, top_k, embedFails, failing) ==
    IF embedFails \/ \E i \in 1..Len(collection_names) : collection_names[i] \in failing
    THEN AllEmpty(collection_names)
    ELSE [i \in 1..Len(collection_names) |->
             [name |-> collection_names[i],
              results |-> ProcessSearchResults(
                              QdrantSearch(collection_names[i], query, top_k, <<>>, FALSE))]]

\* What multi_collection_search(query, collection_names, top_k) returns when
\* the embedding call raises (embedFails) and the store raises on the
\* collections of `failing`.
MultiCollectionResults(query, collection_names, top_k, embedFails, failing) ==
    IF ~CreateQueryEmbedding(IF embedFails THEN 1 ELSE 0).ok
    THEN AllEmpty(collection_names)
    ELSE [i \in 1..Len(collection_names) |->
             [name |-> collection_names[i],
              results |-> ProcessSearchResults(
                              QdrantSearch(collection_names[i], query, top_k, <<>>,
                                           collection_names[i] \in failing))]]

Without(names, S) == SelectSeq(names, LAMBDA n : n \notin S)

\* SearchService.multi_collection_search.  alone: what the same call returns
\* for the collections that do not fail when they are the only ones asked.
MultiCollectionSearch(query, collection_names, top_k, embedFails, failing) ==
    /\ fop' = [NoFusion EXCEPT !.kind = "multi", !.names = collection_names, !.top_k = top_k,
                  !.failing = failing, !.embedFailed = embedFails,
                  !.multi = MultiCollectionResults(query, collection_names, top_k,
                                                   embedFails, failing),
                  !.alone = MultiCollectionResults(query, Without(collection_names, failing),
                                                   top_k, embedFails, {})]
    /\ UNCHANGED <<dim, points, cache, now, sop, embedding_type, collection_cache,
                   cache_timestamp, changedSince, mop, dop, eop, req, stream, recency, prov>>

\* for collection_name, results in multi_results.items(): r["collection"] =
\* collection_name; all_results.extend(results)
RECURSIVE AllResults(_, _)
AllResults(multi_results, i) ==
    IF i > Len(multi_results) THEN <<>>
    ELSE [k \in 1..Len(multi_results[i].results) |->
             [id |-> multi_results[i].results[k].id,
              score |-> multi_results[i].results[k].score,
              rank |-> multi_results[i].results[k].rank,
              document_id |-> multi_results[i].results[k].document_id,
              collection |-> multi_results[i].name]]
         \o AllResults(multi_results, i + 1)

\* list.sort(key=score, reverse=True): stable, so results of equal score keep
\* the order they have in the list.
SortByScore(all_results) ==
    LET n == Len(all_results)
        pos(i) == Cardinality({j \in 1..n :
                      \/ all_results[j].score > all_results[i].score
                      \/ all_results[j].score = all_results[i].score /\ j < i}) + 1
    IN  [k \in 1..n |-> all_results[CHOOSE i \in 1..n : pos(i) = k]]

\* The pooling of _perform_search: sort, cut at top_k, rank again.
PoolResults(multi_results, top_k) ==
    LET sorted == SortByScore(AllResults(multi_results, 1))
        cut    == SubSeq(sorted, 1, Min(top_k, Len(sorted)))
    IN  [i \in 1..Len(cut) |-> [cut[i] EXCEPT !.rank = i]]

\* _perform_search(request, search_service).  search_collections is what
\* config.SEARCH_COLLECTIONS evaluates to: <<>> when app_config defines no
\* such attribute (the read raises AttributeError), <<names>> when it does.
PerformSearch(message, top_k, collection_name, search_collections, failing) ==
    IF collection_name # ""
    THEN Search(message, top_k, collection_name, <<>>, TRUE, "none")
    ELSE /\ fop' = IF search_collections = <<>>
                   THEN [NoFusion EXCEPT !.kind = "chat", !.top_k = top_k, !.raised = TRUE]
                   ELSE LET multi == MultiCollectionResults(message, search_collections[1],
                                                            top_k, FALSE, failing)
                        IN  [NoFusion EXCEPT !.kind = "chat", !.top_k = top_k,
                                !.names = search_collections[1], !.failing = failing,
                                !.multi = multi, !.ret = PoolResults(multi, top_k)]
         /\ UNCHANGED <<dim, points, cache, now, sop, embedding_type, collection_cache,
                        cache_timestamp, changedSince, mop, dop, eop, req, stream, recency, prov>>

----------------------------------------------------------------------------
(* Concurrent /search requests.  The endpoint is a coroutine (async def)    *)
(* that calls the synchronous SearchService.search and never awaits, so the *)
(* event loop runs one request's search from start to end before it starts *)
(* the next.  search() is followed here statement by statement.             *)

\* Requests of the model.
NumRequests == 2
Requests == 1..NumRequests

\* made: the result lists the request's searches computed so far.
NoRequest == [pc |-> "idle", top_k |-> 0, results |-> <<>>, hit |-> FALSE, made |-> {}]

InSearch(r) == req[r].pc \in {"check", "compute", "populate", "link"}

\* Handlers run by a pool of threads: a request starts whenever it arrives.
LoopFreeThreads(r) == TRUE

\* The event loop takes the next task only when the running coroutine has
\* returned; the search endpoint has no suspension point.
LoopFree(r) == \A o \in Requests \ {r} : ~InSearch(o)

\* No request is inside search().
LoopIdle == \A r \in Requests : ~InSearch(r)

\* A request arrives and waits for the event loop.
Arrive(r, top_k) ==
    /\ req[r].pc = "idle"
    /\ req' = [req EXCEPT ![r] = [@ EXCEPT !.pc = "queued", !.top_k = top_k,
                                              !.results = <<>>, !.hit = FALSE]]
    /\ UNCHANGED <<dim, points, cache, now, sop, embedding_type, collection_cache,
                   cache_timestamp, changedSince, mop, dop, fop, eop, stream, recency, prov>>

\* The event loop starts the request's coroutine.
Begin(r) ==
    /\ req[r].pc = "queued"
    /\ LoopFree(r)
    /\ req' = [req EXCEPT ![r].pc = "check"]
    /\ UNCHANGED <<dim, points, cache, now, sop, embedding_type, collection_cache,
                   cache_timestamp, changedSince, mop, dop, fop, eop, stream, recency, prov>>

\* search(), lines 54-59: the cache is read; a hit is returned.
CheckCache(r) ==
    LET key    == CacheKey("q1", req[r].top_k, COLLECTION_NAME)
        cached == CacheGet(cache, key, now)
    IN  /\ req[r].pc = "check"
        /\ IF cached # <<>>
           THEN /\ req' = [req EXCEPT ![r] = [@ EXCEPT !.pc = "done", !.results = cached,
                                                        !.hit = TRUE]]
                /\ cache' = CacheTouch(cache, key, now)
           ELSE /\ req' = [req EXCEPT ![r].pc = "compute"]
                /\ cache' = cache
        /\ UNCHANGED <<dim, points, now, sop, embedding_type, collection_cache,
                       cache_timestamp, changedSince, mop, dop, fop, eop, stream, recency, prov>>

\* search(), lines 61-78: the query is embedded, the store searched, the
\* results processed; an empty list is returned without being cached.
Compute(r) ==
    LET processed == ProcessSearchResults(
                         QdrantSearch(COLLECTION_NAME, "q1", req[r].top_k, <<>>, FALSE))
    IN  /\ req[r].pc = "compute"
        /\ req' = [req EXCEPT ![r] = [@ EXCEPT
                       !.pc = IF processed # <<>> THEN "populate" ELSE "done",
                       !.results = processed, !.made = @ \cup {processed}]]
        /\ UNCHANGED <<dim, points, cache, now, sop, embedding_type, collection_cache,
                       cache_timestamp, changedSince, mop, dop, fop, eop, stream, recency, prov>>

\* search(), line 80, first half of TTLCache.__setitem__: room is made and
\* the value is written; the entry has no expiry link yet.
Populate(r) ==
    LET key    == CacheKey("q1", req[r].top_k, COLLECTION_NAME)
        stored == CacheSet(cache, key, req[r].results, now)
    IN  /\ req[r].pc = "populate"
        /\ cache' = [stored EXCEPT ![Len(stored)].expires = -1]
        /\ req' = [req EXCEPT ![r].pc = "link"]
        /\ UNCHANGED <<dim, points, now, sop, embedding_type, collection_cache,
                       cache_timestamp, changedSince, mop, dop, fop, eop, stream, recency, prov>>

\* Second half of TTLCache.__setitem__: the entry is linked with its expiry
\* time, and search() returns.
Link(r) ==
    LET key == CacheKey("q1", req[r].top_k, COLLECTION_NAME)
    IN  /\ req[r].pc = "link"
        /\ cache' = [i \in 1..Len(cache) |->
                        IF cache[i].key = key /\ cache[i].expires = -1
                        THEN [cache[i] EXCEPT !.expires = now + CACHE_TTL_SECONDS]
                        ELSE cache[i]]
        /\ req' = [req EXCEPT ![r].pc = "done"]
        /\ UNCHANGED <<dim, points, now, sop, embedding_type, collection_cache,
                       cache_timestamp, changedSince, mop, dop, fop, eop, stream, recency, prov>>

\* The response is sent.
Respond(r) ==
    /\ req[r].pc = "done"
    /\ req' = [req EXCEPT ![r].pc = "idle"]
    /\ UNCHANGED <<dim, points, cache, now, sop, embedding_type, collection_cache,
                   cache_timestamp, changedSince, mop, dop, fop, eop, stream, recency, prov>>

----------------------------------------------------------------------------
(* Streaming: LLMHandler.generate_answer_stream and the server-sent events  *)
(* of _stream_chat_response.  A generator advances when its consumer asks   *)
(* for the next item; one action is one resumption, up to the next yield.   *)
(* chunks[i] tells whether the provider's i-th chunk carries content;       *)
(* failAfter is <<>> or <<j>>: the provider raises when asked for chunk     *)
(* j + 1 (for j = 0 the create call or the first read raises).              *)

\* Most chunks the language-model provider streams.
MaxChunks == 2

NoStream ==
    [level |-> "none", pc |-> "none", chunks |-> <<>>, failAfter |-> <<>>, pulled |-> 0,
     provider |-> "none", gpc |-> "none", sent |-> <<>>, raised |-> FALSE,
     closed |-> FALSE, search |-> "none"]

\* A generator without the except clause: the provider's error propagates
\* to the consumer.
RECURSIVE PullRaising(_)
PullRaising(g) ==
    IF g.gpc \notin {"start", "running"} THEN [g |-> [g EXCEPT !.gpc = "ended"], item |-> <<>>]
    ELSE IF g.failAfter = <<g.pulled>>
    THEN [g |-> [g EXCEPT !.provider = "failed", !.gpc = "ended", !.raised = TRUE],
          item |-> <<>>]
    ELSE IF g.pulled = Len(g.chunks)
    THEN [g |-> [g EXCEPT !.provider = "finished", !.gpc = "ended"], item |-> <<>>]
    ELSE LET g1 == [g EXCEPT !.pulled = @ + 1, !.provider = "streaming", !.gpc = "running"]
         IN  IF g.chunks[g.pulled + 1]
             THEN [g |-> g1, item |-> <<[kind |-> "text", index |-> g.pulled + 1]>>]
             ELSE PullRaising(g1)

\* One resumption of generate_answer_stream: the item it yields, <<>> when
\* it returns.  Chunks without content are skipped; an exception of the
\* provider is caught and yields the error fragment, after which the
\* generator returns.
RECURSIVE Pull(_)
Pull(g) ==
    IF g.gpc \notin {"start", "running"} THEN [g |-> [g EXCEPT !.gpc = "ended"], item |-> <<>>]
    ELSE IF g.failAfter = <<g.pulled>>
    THEN [g |-> [g EXCEPT !.provider = "failed", !.gpc = "failed"],
          item |-> <<[kind |-> "error", index |-> 0]>>]
    ELSE IF g.pulled = Len(g.chunks)
    THEN [g |-> [g EXCEPT !.provider = "finished", !.gpc = "ended"], item |-> <<>>]
    ELSE LET g1 == [g EXCEPT !.pulled = @ + 1, !.provider = "streaming", !.gpc = "running"]
         IN  IF g.chunks[g.pulled + 1]
             THEN [g |-> g1, item |-> <<[kind |-> "text", index |-> g.pulled + 1]>>]
             ELSE Pull(g1)

\* llm_handler.generate_answer_stream(...) is called: a generator object,
\* not yet started.
StartAnswerStream(chunks, failAfter) ==
    /\ stream.level = "none"
    /\ stream' = [NoStream EXCEPT !.level = "llm", !.pc = "relay", !.gpc = "start",
                                  !.chunks = chunks, !.failAfter = failAfter]
    /\ UNCHANGED <<dim, points, cache, now, sop, embedding_type, collection_cache,
                   cache_timestamp, changedSince, mop, dop, fop, eop, req, recency, prov>>

\* next() on the generator of generate_answer_stream.
NextFragment ==
    LET p == Pull(stream)
    IN  /\ stream.level = "llm" /\ stream.gpc \in {"start", "running", "failed"}
        /\ stream' = [p.g EXCEPT !.sent = @ \o p.item]
        /\ UNCHANGED <<dim, points, cache, now, sop, embedding_type, collection_cache,
                       cache_timestamp, changedSince, mop, dop, fop, eop, req, recency, prov>>

\* The consumer closes the generator (or drops it): GeneratorExit is raised
\* at the yield and is not an Exception, so the except clause does not run.
\* Nothing in the generator closes the provider's response: whether a
\* response that is still streaming gets closed is left to the finalizers of
\* the client library and the garbage collector.
CloseStream ==
    /\ stream.level \in {"llm", "chat"} /\ ~stream.closed
    /\ stream.gpc \in {"start", "running", "failed"}
    /\ \E after \in (IF stream.provider = "streaming" THEN {"streaming", "closed"}
                     ELSE {stream.provider}) :
          stream' = [stream EXCEPT !.closed = TRUE, !.gpc = "closed", !.pc = "closed",
                                   !.provider = after]
    /\ UNCHANGED <<dim, points, cache, now, sop, embedding_type, collection_cache,
                   cache_timestamp, changedSince, mop, dop, fop, eop, req, recency, prov>>

\* The response is over; the next request may stream.
EndStream ==
    /\ stream.level # "none" /\ stream.gpc \in {"ended", "closed"}
    /\ stream.pc \in {"relay", "ended", "closed"}
    /\ stream' = NoStream
    /\ UNCHANGED <<dim, points, cache, now, sop, embedding_type, collection_cache,
                   cache_timestamp, changedSince, mop, dop, fop, eop, req, recency, prov>>

\* The loop of _stream_chat_response over the answer generator: a data
\* event for each item, the [DONE] event when the generator returns.
Relay(st) ==
    LET p == Pull(st)
    IN  IF p.item # <<>>
        THEN [p.g EXCEPT !.sent = @ \o <<[kind |-> "data", item |-> p.item[1]]>>]
        ELSE [p.g EXCEPT !.sent = @ \o <<[kind |-> "done", item |-> <<>>]>>,
                         !.pc = "terminal"]

\* chat(request) with request.stream: the async generator is handed to
\* StreamingResponse, not yet started.
StartChatStream(chunks, failAfter) ==
    /\ stream.level = "none"
    /\ stream' = [NoStream EXCEPT !.level = "chat", !.pc = "search", !.gpc = "start",
                                  !.chunks = chunks, !.failAfter = failAfter]
    /\ UNCHANGED <<dim, points, cache, now, sop, embedding_type, collection_cache,
                   cache_timestamp, changedSince, mop, dop, fop, eop, req, recency, prov>>

\* The first resumption of _stream_chat_response: _perform_search, then the
\* first event.  Without collection_name the read of config.SEARCH_COLLECTIONS
\* raises and the except clause yields the [ERROR] event; with one, search()
\* swallows the failure of a backend and the stream goes on.
FirstEvent(top_k, collection_name, fault) ==
    LET effect == SearchEffect("q1", top_k, collection_name, <<>>, TRUE, fault)
    IN  /\ stream.level = "chat" /\ stream.pc = "search" /\ ~stream.closed
        /\ IF collection_name = ""
           THEN /\ stream' = [stream EXCEPT !.pc = "terminal", !.gpc = "ended",
                                 !.search = "raised",
                                 !.sent = <<[kind |-> "error", item |-> <<>>]>>]
                /\ cache' = cache
           ELSE /\ stream' = Relay([stream EXCEPT !.pc = "relay",
                                       !.search = IF effect.failed THEN "swallowed" ELSE "ok"])
                /\ cache' = effect.cache
        /\ sop' = Recorded(sop, NoSearch)
        /\ UNCHANGED <<dim, points, now, embedding_type, collection_cache,
                       cache_timestamp, changedSince, mop, dop, fop, eop, req, recency, prov>>

\* A later resumption of _stream_chat_response.
NextEvent ==
    /\ stream.level = "chat" /\ ~stream.closed
    /\ stream.pc \in {"relay", "terminal"}
    /\ stream' = IF stream.pc = "relay" THEN Relay(stream)
                 ELSE [stream EXCEPT !.pc = "ended"]
    /\ UNCHANGED <<dim, points, cache, now, sop, embedding_type, collection_cache,
                   cache_timestamp, changedSince, mop, dop, fop, eop, req, recency, prov>>

----------------------------------------------------------------------------
(* QdrantManager: collection lifecycle, metadata cache, upsert, delete.     *)

NoInfo == [kind |-> "none", name |-> "", ret |-> <<>>, fromCache |-> FALSE, stale |-> FALSE]

\* QdrantManager.create_collection(name, vector_size): nothing to do when the
\* collection exists; vector_size or self.vector_size otherwise.
DimAfterCreate(d0, vector_size, down) ==
    IF down \/ d0 # 0 THEN d0 ELSE NumOrDefault(vector_size, VECTOR_SIZE)

CreatedDim(name, vector_size, down) == DimAfterCreate(dim[name], vector_size, down)

CreateCollection(collection_name, vector_size, down) ==
    LET name == NameOrDefault(collection_name, COLLECTION_NAME)
    IN  /\ dim' = [dim EXCEPT ![name] = CreatedDim(name, vector_size, down)]
        /\ changedSince' = [changedSince EXCEPT ![name] =
                                @ \/ (~down /\ dim[name] = 0 /\ collection_cache[name] # <<>>)]
        /\ mop' = Recorded(mop, NoInfo)
        /\ UNCHANGED <<points, now, embedding_type, searchVars, collection_cache,
                       cache_timestamp, dop, fop, eop, req, stream, recency, prov>>

\* QdrantManager.delete_collection(name): the store drops the collection and
\* its points; deleting an absent collection raises in the client and is
\* reported as False.
DeleteCollection(collection_name, down) ==
    LET name == NameOrDefault(collection_name, COLLECTION_NAME)
        done == ~down /\ dim[name] # 0
    IN  /\ dim' = [dim EXCEPT ![name] = IF done THEN 0 ELSE @]
        /\ points' = [points EXCEPT ![name] = IF done THEN {} ELSE @]
        /\ changedSince' = [changedSince EXCEPT ![name] = @ \/ (done /\ collection_cache[name] # <<>>)]
        /\ mop' = Recorded(mop, NoInfo)
        /\ UNCHANGED <<now, embedding_type, searchVars, collection_cache, cache_timestamp, dop, fop, eop, req, stream, recency, prov>>

\* What client.get_collection(name) reports.
CollectionInfo(name) ==
    [name |-> name, points_count |-> Cardinality(points[name]), status |-> "green"]

\* QdrantManager.get_collection_info(name)
GetCollectionInfo(collection_name, down) ==
    LET name   == NameOrDefault(collection_name, COLLECTION_NAME)
        cached == /\ collection_cache[name] # <<>>
                  /\ now - cache_timestamp[name] < META_CACHE_TTL
        found  == ~down /\ dim[name] # 0
    IN  IF cached
        THEN /\ mop' = [kind |-> "info", name |-> name, ret |-> collection_cache[name],
                        fromCache |-> TRUE, stale |-> changedSince[name]]
             /\ UNCHANGED <<storeVars, now, embedding_type, searchVars, collection_cache,
                            cache_timestamp, changedSince, dop, fop, eop, req, stream, recency, prov>>
        ELSE IF found
        THEN /\ collection_cache' = [collection_cache EXCEPT ![name] = <<CollectionInfo(name)>>]
             /\ cache_timestamp' = [cache_timestamp EXCEPT ![name] = now]
             /\ changedSince' = [changedSince EXCEPT ![name] = FALSE]
             /\ mop' = [kind |-> "info", name |-> name, ret |-> <<CollectionInfo(name)>>,
                        fromCache |-> FALSE, stale |-> FALSE]
             /\ UNCHANGED <<storeVars, now, embedding_type, searchVars, dop, fop, eop, req, stream, recency, prov>>
        ELSE /\ mop' = [kind |-> "info", name |-> name, ret |-> <<>>,
                        fromCache |-> FALSE, stale |-> FALSE]
             /\ UNCHANGED <<storeVars, now, embedding_type, searchVars, collection_cache,
                            cache_timestamp, changedSince, dop, fop, eop, req, stream, recency, prov>>

\* An upsert that adds the points and keeps the stored ones of the same ids.
UpsertBatchAdding(stored, batch) == stored \cup {batch[k] : k \in 1..Len(batch)}

\* client.upsert of one batch: the points replace the stored points of the
\* same ids.
UpsertBatch(stored, batch) ==
    {p \in stored : \A k \in 1..Len(batch) : batch[k].id # p.id} \cup {batch[k] : k \in 1..Len(batch)}

\* The loop of QdrantManager.upsert_points from offset i on, over the stored
\* points of a collection of vector size d.  The client raises on the batch
\* number failAt and on a batch with a vector of another length than d.
RECURSIVE UpsertFrom(_, _, _, _, _, _)
UpsertFrom(stored, pts, i, batch_size, d, failAt) ==
    IF i >= Len(pts) THEN [ok |-> TRUE, stored |-> stored, sent |-> <<>>]
    ELSE LET batch == SubSeq(pts, i + 1, Min(i + batch_size, Len(pts)))
             bad   == \/ d = 0
                      \/ failAt = <<i \div batch_size>>
                      \/ \E k \in 1..Len(batch) : batch[k].vdim # d
             rest  == UpsertFrom(UpsertBatch(stored, batch), pts, i + batch_size,
                                 batch_size, d, failAt)
         IN  IF bad THEN [ok |-> FALSE, stored |-> stored, sent |-> <<batch>>]
             ELSE [rest EXCEPT !.sent = <<batch>> \o @]

\* QdrantManager.upsert_points(points, collection_name, batch_size): the
\* collection is ensured, then the batches are sent; sent holds the batches
\* handed to client.upsert, the refused one included.
UpsertPoints(pts, collection_name, batch_size, down, failAt) ==
    LET name == NameOrDefault(collection_name, COLLECTION_NAME)
        d    == DimAfterCreate(dim[name], <<>>, down)
        up   == UpsertFrom(points[name], pts, 0, batch_size, IF down THEN 0 ELSE d, failAt)
    IN  /\ dim' = [dim EXCEPT ![name] = d]
        /\ points' = [points EXCEPT ![name] = up.stored]
        /\ dop' = Recorded(dop,
                      [kind |-> "upsert", collection |-> name, pts |-> pts,
                       batch_size |-> batch_size, ok |-> up.ok, sent |-> up.sent,
                       before |-> points[name]])
        /\ changedSince' = [changedSince EXCEPT ![name] =
                                @ \/ (~down /\ dim[name] = 0 /\ collection_cache[name] # <<>>)]
        /\ sop' = Recorded(sop, NoSearch)
        /\ fop' = NoFusion
        /\ UNCHANGED <<now, embedding_type, cache, collection_cache, cache_timestamp, mop,
                       eop, req, stream, recency, prov>>

----------------------------------------------------------------------------
(* DocumentUploadService.                                                   *)

\* The number of chunks RecursiveCharacterTextSplitter.split_text makes of a
\* content: none of a blank one.
ChunkCount(content) ==
    CASE content = "one" -> 1
      [] content = "two" -> 2
      [] content = "big" -> SCROLL_LIMIT + 1
      [] content = "mid" -> 1
      [] content = "three" -> 3
      [] OTHER -> 0

\* A splitter that makes one empty chunk of a blank content.
SplitTextKeepingBlank(content) ==
    [i \in 1..(IF ChunkCount(content) = 0 THEN 1 ELSE ChunkCount(content)) |-> <<content, i - 1>>]

SplitText(content) == [i \in 1..ChunkCount(content) |-> <<content, i - 1>>]

\* first: when the call repeats the call before it, a successful ingest of
\* the same content into the same collection, what that first ingest gave.
NoFirst == [repeats |-> FALSE, document_id |-> "", ids |-> {}]

NoDocOp ==
    [kind |-> "none", collection |-> "", arg |-> "", ok |-> FALSE, document_id |-> "",
     chunks_count |-> 0, ids |-> {}, before |-> {}, fault |-> FALSE, first |-> NoFirst,
     status |-> 0, embedded |-> 0, upserted |-> 0]

FirstIngest(content, collection) ==
    IF dop.kind = "upload" /\ dop.ok /\ dop.arg = content /\ dop.collection = collection
    THEN [repeats |-> TRUE, document_id |-> dop.document_id, ids |-> dop.ids]
    ELSE NoFirst

\* The payload document_id of the points built: base_metadata sets it to
\* doc_id and the caller's metadata, merged last, may set it again.
PayloadDocId(doc_id, meta_document_id) ==
    IF meta_document_id = "" THEN doc_id ELSE meta_document_id

\* The points upload_document builds from the chunks and their embeddings.
BuildPoints(doc_id, meta_document_id, embeddings) ==
    [k \in 1..Len(embeddings) |->
        [id |-> PointId(doc_id, k - 1),
         document_id |-> PayloadDocId(doc_id, meta_document_id),
         zero |-> embeddings[k].zero, vdim |-> embeddings[k].vdim]]

\* The provider's behaviour during one ingest: every call succeeds, or the
\* first batch call and every single call for its texts fail.
EmbedPlan(mode, n) ==
    IF mode = "ok" THEN [fails |-> [k \in 1..n |-> 0], batches |-> {}]
    ELSE [fails |-> [k \in 1..n |-> MAX_RETRIES], batches |-> {0}]

\* What upload_document does to a collection of vector size st.dim holding
\* the points st.points, and the dict it returns.  down: the store is
\* unreachable during the call; failAt: the upsert batch the client raises
\* on, if any.  embedded, upserted: the calls made of create_embeddings_batch
\* and upsert_points.
UploadResult(st, content, meta_document_id, embedMode, down, failAt) ==
    LET d          == DimAfterCreate(st.dim, <<>>, down)
        chunks     == SplitText(content)
        doc_id     == DocIdOf(content)
        embeddings == CreateEmbeddingsBatch(chunks, EMBED_BATCH_SIZE,
                                            EmbedPlan(embedMode, Len(chunks)))
        pts        == BuildPoints(doc_id, meta_document_id, embeddings)
        up         == UpsertFrom(st.points, pts, 0, UPLOAD_BATCH_SIZE,
                                 IF down THEN 0 ELSE d, failAt)
    IN  IF chunks = <<>>
        THEN [dim |-> d, points |-> st.points, ok |-> FALSE, document_id |-> "",
              chunks_count |-> 0, ids |-> {}, embedded |-> 0, upserted |-> 0]
        ELSE [dim |-> d, points |-> up.stored, ok |-> up.ok,
              document_id |-> IF up.ok THEN doc_id ELSE "",
              chunks_count |-> Len(chunks), ids |-> {pts[k].id : k \in 1..Len(pts)},
              embedded |-> 1, upserted |-> 1]

\* DocumentUploadService.upload_document(content, title, metadata, collection_name).
UploadDocument(content, meta_document_id, collection_name, embedMode, down, failAt) ==
    LET collection == NameOrDefault(collection_name, COLLECTION_NAME)
        r == UploadResult([dim |-> dim[collection], points |-> points[collection]],
                          content, meta_document_id, embedMode, down, failAt)
    IN  /\ dim' = [dim EXCEPT ![collection] = r.dim]
        /\ points' = [points EXCEPT ![collection] = r.points]
        /\ dop' = Recorded(dop,
                      [kind |-> "upload", collection |-> collection, arg |-> content,
                       ok |-> r.ok, document_id |-> r.document_id,
                       chunks_count |-> r.chunks_count, ids |-> r.ids,
                       before |-> points[collection], fault |-> down \/ failAt # <<>>,
                       first |-> FirstIngest(content, collection), status |-> 0,
                       embedded |-> r.embedded, upserted |-> r.upserted])
        /\ changedSince' = [changedSince EXCEPT ![collection] =
                                @ \/ (~down /\ dim[collection] = 0 /\ collection_cache[collection] # <<>>)]
        /\ sop' = Recorded(sop, NoSearch)
        /\ fop' = NoFusion
        /\ UNCHANGED <<now, embedding_type, cache, collection_cache, cache_timestamp, mop, eop, req, stream, recency, prov>>

\* Most documents in one batch upload.
MaxDocs == 2

\* A batch loop that stops at the first document that fails.
RECURSIVE BatchFromStopping(_, _, _, _, _)
BatchFromStopping(st, documents, i, embedMode, results) ==
    IF i > Len(documents) \/ results.failed > 0 THEN [st |-> st, results |-> results]
    ELSE LET doc == documents[i]
             r   == UploadResult(st, doc.content, "", embedMode, doc.fault = "down",
                                 IF doc.fault = "upsert" THEN <<0>> ELSE <<>>)
         IN  BatchFromStopping([dim |-> r.dim, points |-> r.points], documents, i + 1, embedMode,
                       [results EXCEPT !.success = IF r.ok THEN @ + 1 ELSE @,
                                       !.failed  = IF r.ok THEN @ ELSE @ + 1,
                                       !.details = Append(@, r)])

\* The loop of upload_documents_batch from the i-th document on: each is
\* uploaded, counted as a success or a failure, and its result appended.
\* A document is [content, fault]: its text and what fails during its upload
\* ("none", "down": the store is unreachable, "upsert": the first upsert
\* batch is refused).
RECURSIVE BatchFrom(_, _, _, _, _)
BatchFrom(st, documents, i, embedMode, results) ==
    IF i > Len(documents) THEN [st |-> st, results |-> results]
    ELSE LET doc == documents[i]
             r   == UploadResult(st, doc.content, "", embedMode, doc.fault = "down",
                                 IF doc.fault = "upsert" THEN <<0>> ELSE <<>>)
         IN  BatchFrom([dim |-> r.dim, points |-> r.points], documents, i + 1, embedMode,
                       [results EXCEPT !.success = IF r.ok THEN @ + 1 ELSE @,
                                       !.failed  = IF r.ok THEN @ ELSE @ + 1,
                                       !.details = Append(@, r)])

\* DocumentUploadService.upload_documents_batch(documents, collection_name).
UploadDocumentsBatch(documents, collection_name, embedMode) ==
    LET collection == NameOrDefault(collection_name, COLLECTION_NAME)
        b == BatchFrom([dim |-> dim[collection], points |-> points[collection]],
                       documents, 1, embedMode,
                       [total |-> Len(documents), success |-> 0, failed |-> 0,
                        details |-> <<>>])
    IN  /\ dim' = [dim EXCEPT ![collection] = b.st.dim]
        /\ points' = [points EXCEPT ![collection] = b.st.points]
        /\ dop' = Recorded(dop,
                      [kind |-> "batch", collection |-> collection, documents |-> documents,
                       results |-> b.results, before |-> points[collection]])
        /\ changedSince' = [changedSince EXCEPT ![collection] =
                                @ \/ (b.st.dim # dim[collection] /\ collection_cache[collection] # <<>>)]
        /\ sop' = Recorded(sop, NoSearch)
        /\ fop' = NoFusion
        /\ UNCHANGED <<now, embedding_type, cache, collection_cache, cache_timestamp, mop, eop, req, stream, recency, prov>>

\* client.scroll(collection, filter document_id == X, limit): the matching
\* points in the order of their ids, at most limit of them.
Scroll(name, document_id, limit) ==
    LET matching == {p \in points[name] : p.document_id = document_id}
    IN  IF Cardinality(matching) <= limit THEN matching
        ELSE {p \in matching :
                 Cardinality({q \in matching : IdBefore(q.id, p.id)}) < limit}

\* QdrantManager.delete_points(point_ids, name): the store removes the
\* points of these ids.
DeletePoints(stored, point_ids) == {p \in stored : p.id \notin point_ids}

\* The status of the delete and the info endpoints: 404 when the service
\* returned False or None.
StatusOf(truthy) == IF truthy THEN 200 ELSE 404

\* DocumentUploadService.delete_document(document_id, collection_name) under
\* its endpoint.  fault: "scroll" or "delete" when that client call raises.
DeleteDocument(document_id, collection_name, fault) ==
    LET collection == NameOrDefault(collection_name, COLLECTION_NAME)
        scrolled   == IF fault = "scroll" \/ dim[collection] = 0 THEN {}
                      ELSE Scroll(collection, document_id, SCROLL_LIMIT)
        point_ids  == {p.id : p \in scrolled}
        success    == scrolled # {} /\ fault # "delete"
    IN  /\ points' = [points EXCEPT ![collection] =
                          IF success THEN DeletePoints(@, point_ids) ELSE @]
        /\ dop' = Recorded(dop,
                      [kind |-> "delete", collection |-> collection, arg |-> document_id,
                       ok |-> success, document_id |-> document_id, chunks_count |-> 0,
                       ids |-> point_ids, before |-> points[collection],
                       fault |-> fault # "none", first |-> NoFirst,
                       status |-> StatusOf(success), embedded |-> 0, upserted |-> 0])
        /\ sop' = Recorded(sop, NoSearch)
        /\ fop' = NoFusion
        /\ UNCHANGED <<dim, now, embedding_type, cache, metaVars, eop, req, stream, recency, prov>>

\* DocumentUploadService.get_document_info(document_id, collection_name)
\* under its endpoint: the first chunk's point, if the scroll gives one.
\* fault: "scroll" when the client call raises.
GetDocumentInfo(document_id, collection_name, fault) ==
    LET collection == NameOrDefault(collection_name, COLLECTION_NAME)
        scrolled   == IF fault = "scroll" \/ dim[collection] = 0 THEN {}
                      ELSE Scroll(collection, document_id, 1)
    IN  /\ dop' = Recorded(dop,
                      [kind |-> "info", collection |-> collection, arg |-> document_id,
                       ok |-> scrolled # {}, document_id |-> document_id, chunks_count |-> 0,
                       ids |-> {p.id : p \in scrolled}, before |-> points[collection],
                       fault |-> fault # "none", first |-> NoFirst,
                       status |-> StatusOf(scrolled # {}), embedded |-> 0, upserted |-> 0])
        /\ sop' = Recorded(sop, NoSearch)
        /\ fop' = NoFusion
        /\ UNCHANGED <<storeVars, now, embedding_type, cache, metaVars, eop, req, stream, recency, prov>>

----------------------------------------------------------------------------
(* api/v1/chat.py and api/v1/documents.py: the lazy dependency providers.   *)
(* They are plain functions, which the framework runs in worker threads,    *)
(* one per request that depends on them.                                    *)

Services == {"qdrant", "embedding", "search", "llm", "upload"}

\* The providers endpoints name in Depends(...).
Depended == {"qdrant", "search", "llm", "upload"}

\* The providers a provider calls for the arguments of its constructor, in
\* the order of the call.
ArgsOf(s) == IF s \in {"search", "upload"} THEN <<"qdrant", "embedding">> ELSE <<>>

\* instance: the module global of each service, 0 for None, else the number
\* of the instance it holds; created: the instances constructed so far;
\* stack: the provider calls each thread is in, innermost last, with the
\* arguments obtained (args) and the instance constructed (made).
NoProviders ==
    [instance |-> [s \in Services |-> 0],
     created  |-> [s \in Services |-> 0],
     stack    |-> [t \in Requests |-> <<>>]]

Frame(s) == [svc |-> s, pc |-> "check", args |-> 0, made |-> 0]

Top(t) == prov.stack[t][Len(prov.stack[t])]

Below(t) == SubSeq(prov.stack[t], 1, Len(prov.stack[t]) - 1)

ProviderFrame == <<dim, points, cache, now, sop, embedding_type, collection_cache,
                   cache_timestamp, changedSince, mop, dop, fop, eop, req, stream, recency>>

\* A request's dependency is resolved: the provider is called in thread t.
CallProvider(t, s) ==
    /\ prov.stack[t] = <<>>
    /\ prov' = [prov EXCEPT !.stack[t] = <<Frame(s)>>]
    /\ UNCHANGED ProviderFrame

\* if _x is None: ... return _x
CheckGlobal(t) ==
    LET f == Top(t)
    IN  /\ prov.stack[t] # <<>> /\ f.pc = "check"
        /\ prov' = IF prov.instance[f.svc] # 0
                   THEN [prov EXCEPT !.stack[t] = Below(t)]
                   ELSE [prov EXCEPT !.stack[t] = Append(Below(t), [f EXCEPT !.pc = "args"])]
        /\ UNCHANGED ProviderFrame

\* qdrant_manager=get_qdrant_manager(), embedding_manager=get_embedding_manager():
\* the next argument's provider is called in the same thread.
CallArgument(t) ==
    LET f == Top(t)
    IN  /\ prov.stack[t] # <<>> /\ f.pc = "args" /\ f.args < Len(ArgsOf(f.svc))
        /\ prov' = [prov EXCEPT !.stack[t] =
                        Append(Append(Below(t), [f EXCEPT !.args = @ + 1]),
                               Frame(ArgsOf(f.svc)[f.args + 1]))]
        /\ UNCHANGED ProviderFrame

\* QdrantManager(), EmbeddingManager(), SearchService(...), LLMHandler(),
\* DocumentUploadService(...): a new instance is constructed.
Construct(t) ==
    LET f == Top(t)
    IN  /\ prov.stack[t] # <<>> /\ f.pc = "args" /\ f.args = Len(ArgsOf(f.svc))
        /\ prov' = [prov EXCEPT !.created[f.svc] = @ + 1,
                                !.stack[t] = Append(Below(t),
                                    [f EXCEPT !.pc = "assign",
                                              !.made = prov.created[f.svc] + 1])]
        /\ UNCHANGED ProviderFrame

\* _x = <the new instance>; return _x
AssignGlobal(t) ==
    LET f == Top(t)
    IN  /\ prov.stack[t] # <<>> /\ f.pc = "assign"
        /\ prov' = [prov EXCEPT !.instance[f.svc] = f.made, !.stack[t] = Below(t)]
        /\ UNCHANGED ProviderFrame

----------------------------------------------------------------------------
(* Specifications.                                                          *)

Off(history) == [history EXCEPT !.kind = "off"]

\* The state after construction: an empty store, empty caches.  Each
\* specification records the history its properties read.
StartWith(searches, infos, docs, uses) ==
    /\ dim = [c \in Collections |-> 0]
    /\ points = [c \in Collections |-> {}]
    /\ cache = <<>>
    /\ now = 0
    /\ sop = IF searches THEN NoSearch ELSE Off(NoSearch)
    /\ embedding_type \in {"voyage", "openai"}
    /\ collection_cache = [c \in Collections |-> <<>>]
    /\ cache_timestamp = [c \in Collections |-> 0]
    /\ changedSince = [c \in Collections |-> FALSE]
    /\ mop = IF infos THEN NoInfo ELSE Off(NoInfo)
    /\ dop = IF docs THEN NoDocOp ELSE Off(NoDocOp)
    /\ fop = NoFusion
    /\ eop = NoEmbedOp
    /\ req = [r \in Requests |-> NoRequest]
    /\ stream = NoStream
    /\ recency = [NoRecency EXCEPT !.on = uses]
    /\ prov = NoProviders

Start(searches, infos, docs) == StartWith(searches, infos, docs, FALSE)

Init == Start(TRUE, FALSE, FALSE)

\* Searches of the default collection, with either threshold, with and
\* without the cache and with either backend failing, while a document is
\* ingested and deleted and time passes.
NextSearch ==
    \/ \E k \in 1..MaxTopK, t \in {<<10>>, <<30>>}, u \in BOOLEAN,
          f \in {"none", "embed", "store"} : Search("q1", k, "", t, u, f)
    \/ ClearCache
    \/ Tick
    \/ UploadDocument("two", "", "", "ok", FALSE, <<>>)
    \/ DeleteDocument("h_two", "", "none")

Spec == Init /\ [][NextSearch]_vars

InitIngest == Start(FALSE, FALSE, TRUE)

Contents == {"blank", "one", "two", "big"}

\* Ingests and deletes of documents of no, one, two and more than
\* SCROLL_LIMIT chunks, with the store or the provider failing.
NextIngest ==
    \/ \E x \in Contents, m \in {"", "h_one"}, down \in BOOLEAN,
          failAt \in {<<>>, <<0>>, <<1>>} : UploadDocument(x, m, "", "ok", down, failAt)
    \/ \E x \in Contents, f \in {"none", "scroll", "delete"} :
            DeleteDocument(DocIdOf(x), "", f)
    \/ \E x \in Contents, f \in {"none", "scroll"} : GetDocumentInfo(DocIdOf(x), "", f)

SpecIngest == InitIngest /\ [][NextIngest]_vars

InitCache == StartWith(FALSE, FALSE, FALSE, TRUE)

\* Searches of more keys than the cache has room for, with the order of
\* their use recorded, while a document is ingested and time passes.
NextCache ==
    \/ \E q \in {"q1", "q2"}, k \in 1..MaxTopK : Search(q, k, "", <<10>>, TRUE, "none")
    \/ ClearCache
    \/ Tick
    \/ UploadDocument("two", "", "", "ok", FALSE, <<>>)

SpecCache == InitCache /\ [][NextCache]_vars

InitKeep == Start(TRUE, FALSE, FALSE)

\* Searches of three keys with and without the cache, between searches of
\* several collections, an ingest, a delete, clear_cache and the passing of
\* time.
NextKeep ==
    \/ \E s \in {<<"q1", 1>>, <<"q1", MaxTopK>>, <<"q2", MaxTopK>>}, u \in BOOLEAN :
          Search(s[1], s[2], "", <<10>>, u, "none")
    \/ MultiCollectionSearch("q1", <<"c1", "c2">>, MaxTopK, FALSE, {})
    \/ UploadDocument("two", "", "", "ok", FALSE, <<>>)
    \/ DeleteDocument("h_two", "", "none")
    \/ ClearCache
    \/ Tick

SpecKeep == InitKeep /\ [][NextKeep]_vars

InitProviders == Start(FALSE, FALSE, FALSE)

\* First and later requests, each resolving one dependency in its thread.
NextProviders ==
    \/ \E t \in Requests, s \in Depended : CallProvider(t, s)
    \/ \E t \in Requests : CheckGlobal(t)
    \/ \E t \in Requests : CallArgument(t)
    \/ \E t \in Requests : Construct(t)
    \/ \E t \in Requests : AssignGlobal(t)

SpecProviders == InitProviders /\ [][NextProviders]_vars

InitUpsert == Start(FALSE, FALSE, TRUE)

\* Most points in one call of upsert_points.
MaxPoints == 3

\* The points the calls draw from: three ids, the first in two versions.
PointPool ==
    {[id |-> <<"h_one", 0>>, document_id |-> "h_one", zero |-> FALSE, vdim |-> VECTOR_SIZE],
     [id |-> <<"h_one", 0>>, document_id |-> "h_mid", zero |-> FALSE, vdim |-> VECTOR_SIZE],
     [id |-> <<"h_two", 0>>, document_id |-> "h_two", zero |-> FALSE, vdim |-> VECTOR_SIZE],
     [id |-> <<"h_two", 1>>, document_id |-> "h_two", zero |-> FALSE, vdim |-> VECTOR_SIZE]}

\* Lists of points of distinct ids.
PointLists ==
    {pts \in UNION {[1..n -> PointPool] : n \in 0..MaxPoints} :
        \A i, j \in 1..Len(pts) : pts[i].id = pts[j].id => i = j}

\* Calls of upsert_points with lists shorter and longer than the batch
\* size, into a collection that holds some of their ids, with the store
\* refusing a batch or being unreachable.
NextUpsert ==
    \/ \E pts \in PointLists, b \in 1..UPLOAD_BATCH_SIZE, failAt \in {<<>>, <<1>>} :
          UpsertPoints(pts, "", b, FALSE, failAt)
    \/ \E pts \in PointLists : UpsertPoints(pts, "", UPLOAD_BATCH_SIZE, TRUE, <<>>)

SpecUpsert == InitUpsert /\ [][NextUpsert]_vars

InitSimilar == Start(TRUE, FALSE, FALSE)

\* A point upserted without a content key.
RawPoint ==
    [id |-> <<"h_raw", 0>>, document_id |-> "h_raw", zero |-> FALSE, vdim |-> VECTOR_SIZE]

\* Similar-document searches for stored, absent and content-less seeds,
\* with a backend failing, while documents come and go.
NextSimilar ==
    \/ \E id \in {<<"h_two", 0>>, <<"h_raw", 0>>}, k \in {1, MaxTopK},
          f \in {"none", "retrieve", "store"} : GetSimilarDocuments(id, k, "", f)
    \/ \E x \in {"one", "two"} : UploadDocument(x, "", "", "ok", FALSE, <<>>)
    \/ UpsertPoints(<<RawPoint>>, "", UPLOAD_BATCH_SIZE, FALSE, <<>>)
    \/ DeleteDocument("h_two", "", "none")

SpecSimilar == InitSimilar /\ [][NextSimilar]_vars

InitThreshold == Start(TRUE, FALSE, FALSE)

\* Searches with no threshold, with the threshold 0 and with a positive
\* one, with and without the cache, while documents come and go.
NextThreshold ==
    \/ \E k \in 1..MaxTopK, t \in {<<>>, <<0>>, <<10>>}, u \in BOOLEAN :
          Search("q1", k, "", t, u, "none")
    \/ \E x \in {"one", "two"} : UploadDocument(x, "", "", "ok", FALSE, <<>>)
    \/ DeleteDocument("h_two", "", "none")

SpecThreshold == InitThreshold /\ [][NextThreshold]_vars

InitBatch == Start(FALSE, FALSE, TRUE)

Documents ==
    {[content |-> "blank", fault |-> "none"], [content |-> "one", fault |-> "none"],
     [content |-> "one", fault |-> "down"], [content |-> "two", fault |-> "none"],
     [content |-> "two", fault |-> "upsert"]}

DocumentLists == UNION {[1..n -> Documents] : n \in 0..MaxDocs}

\* Batch uploads of up to MaxDocs documents, some blank and some failing,
\* into a store that holds what earlier batches left and loses documents
\* to deletes.
NextBatch ==
    \/ \E documents \in DocumentLists : UploadDocumentsBatch(documents, "", "ok")
    \/ \E x \in {"one", "two"} : DeleteDocument(DocIdOf(x), "", "none")

SpecBatch == InitBatch /\ [][NextBatch]_vars

InitFusion == Start(FALSE, FALSE, FALSE)

\* Largest top_k of a multi collection search.
MaxPoolTopK == 5

Listings == {<<"c1", "c2">>, <<"c2", "c1">>}

\* Searches of both collections, listed in either order, with the store
\* failing on one of them, over stores that hold the same and different
\* documents in the two collections.
NextFusion ==
    \/ \E x \in {"one", "mid", "two"} : UploadDocument(x, "", "c1", "ok", FALSE, <<>>)
    \/ \E x \in {"one", "three"} : UploadDocument(x, "", "c2", "ok", FALSE, <<>>)
    \/ \E k \in 1..MaxPoolTopK, names \in Listings, e \in BOOLEAN,
          failing \in {{}, {"c1"}, {"c2"}} : MultiCollectionSearch("q1", names, k, e, failing)
    \/ \E k \in 1..MaxPoolTopK, names \in {<<>>} \cup {<<l>> : l \in Listings} :
          PerformSearch("q1", k, "", names, {})

SpecFusion == InitFusion /\ [][NextFusion]_vars

InitMeta == Start(FALSE, TRUE, FALSE)

\* Collections created, deleted and filled while their metadata is read
\* and the clock advances past the time to live of the metadata cache.
NextMeta ==
    \/ \E c \in {"", "c2"}, v \in {<<>>, <<1536>>}, down \in BOOLEAN : CreateCollection(c, v, down)
    \/ \E c \in {"", "c2"}, down \in BOOLEAN : DeleteCollection(c, down)
    \/ \E c \in {"", "c2"}, down \in BOOLEAN : GetCollectionInfo(c, down)
    \/ UploadDocument("one", "", "", "ok", FALSE, <<>>)
    \/ Tick

SpecMeta == InitMeta /\ [][NextMeta]_vars

InitConc == Start(FALSE, FALSE, FALSE)

\* Identical and different searches arriving at any time, while a document
\* is ingested and deleted between requests and the clock advances.
NextConc ==
    \/ \E r \in Requests, k \in {1, MaxTopK} : Arrive(r, k)
    \/ \E r \in Requests : Begin(r)
    \/ \E r \in Requests : CheckCache(r)
    \/ \E r \in Requests : Compute(r)
    \/ \E r \in Requests : Populate(r)
    \/ \E r \in Requests : Link(r)
    \/ \E r \in Requests : Respond(r)
    \/ LoopIdle /\ UploadDocument("two", "", "", "ok", FALSE, <<>>)
    \/ LoopIdle /\ Tick

SpecConc == InitConc /\ [][NextConc]_vars

InitStream == Start(FALSE, FALSE, FALSE)

ChunkLists == UNION {[1..n -> BOOLEAN] : n \in 0..MaxChunks}

\* The points at which the provider may raise while streaming `chunks`.
FailPoints(chunks) == {<<>>} \cup {<<j>> : j \in 0..Len(chunks)}

\* Answer streams and chat streams, read to their end or closed by the
\* consumer at any point, with the provider or the search failing.
NextStream ==
    \/ \E chunks \in ChunkLists : \E f \in FailPoints(chunks) : StartAnswerStream(chunks, f)
    \/ NextFragment
    \/ CloseStream
    \/ EndStream
    \/ \E chunks \in ChunkLists : \E f \in FailPoints(chunks) : StartChatStream(chunks, f)
    \/ \E c \in {"", "c1"}, fault \in {"none", "embed", "store"} : FirstEvent(MaxTopK, c, fault)
    \/ NextEvent
    \/ UploadDocument("two", "", "", "ok", FALSE, <<>>)

SpecStream == InitStream /\ [][NextStream]_vars

InitEmbed == Start(FALSE, FALSE, FALSE)

\* Most texts one call of the model embeds.
MaxTexts == 2

Texts == {[i \in 1..n |-> i] : n \in 0..MaxTexts}

\* The sub-batch offsets of a list of n texts.
Offsets(n, batch_size) == {i \in 0..n - 1 : i % batch_size = 0}

\* Calls of the EmbeddingManager with a provider that raises any number of
\* times, on batch calls and on single calls.
NextEmbed ==
    \/ \E m \in 1..MAX_RETRIES, f \in 0..MAX_RETRIES + 1, perm \in BOOLEAN,
          jitters \in [1..MAX_RETRIES -> {5, 15}] : EmbedWithRetry(1, m, f, perm, jitters)
    \/ \E f \in 0..1 : EmbedQuery("q1", f)
    \/ \E texts \in Texts, b \in 1..EMBED_BATCH_SIZE :
          \E bad \in SUBSET Offsets(Len(texts), b), fails \in [1..Len(texts) -> 0..MAX_RETRIES] :
              EmbedBatch(texts, b, [fails |-> fails, batches |-> bad])

SpecEmbed == InitEmbed /\ [][NextEmbed]_vars

----------------------------------------------------------------------------
(* Properties of SearchService.search, under Spec.                          *)

Descending(ret) == \A i \in 1..Len(ret) - 1 : ret[i].score >= ret[i + 1].score
RankedFromOne(ret) == \A i \in 1..Len(ret) : ret[i].rank = i

\* C1: a search called with score_threshold 0.3 returns only results of
\* score >= 0.3, in descending score order, ranked 1..len(results), whatever
\* searches, ingests and deletes came before it.
C1_ThresholdOrderRank ==
    (sop.kind = "search" /\ sop.threshold = <<30>>) =>
        /\ \A i \in 1..Len(sop.ret) : sop.ret[i].score >= 30
        /\ Descending(sop.ret)
        /\ RankedFromOne(sop.ret)

\* C2 as claimed: a search that repeats, within the TTL and with the cache
\* on, the key of the search made just before it returns the same list as
\* that first call and calls neither backend, whatever the first call found.
C2_RepeatAlwaysCached ==
    (sop.kind = "search" /\ sop.repeatOf # "none") =>
        (sop.sameAsFirst /\ sop.embedCalls = 0 /\ sop.storeCalls = 0)

\* C2 as amended: the same, when the first call returned at least one
\* result (an empty result is never stored in the cache).
C2_RepeatOfHitsCached ==
    (sop.kind = "search" /\ sop.repeatOf = "hits") =>
        (sop.sameAsFirst /\ sop.embedCalls = 0 /\ sop.storeCalls = 0)

\* A repeated search, later than the first and within the TTL, that was
\* answered with the first call's hits.
C2_Witness ==
    /\ sop.kind = "search" /\ sop.repeatOf = "hits"
    /\ sop.ret # <<>> /\ sop.at > 0 /\ sop.embedCalls = 0

\* C21: a search with the cache on whose key has an entry that was stored
\* at least the TTL ago calls the embedding backend and the vector store
\* again and returns what the store holds now, not the expired entry.
C21_ExpiredEntryRefetched ==
    (sop.kind = "search" /\ sop.use_cache /\ sop.expired # <<>> /\ sop.fault = "none") =>
        /\ sop.embedCalls = 1 /\ sop.storeCalls = 1
        /\ sop.ret = ProcessSearchResults(
                         QdrantSearch(sop.collection, sop.query, sop.top_k,
                                      sop.threshold, FALSE))

\* A search that found an expired entry of its key and returned something
\* else, from the store.
C21_Witness ==
    /\ sop.kind = "search" /\ sop.use_cache /\ sop.expired # <<>>
    /\ sop.fault = "none" /\ sop.embedCalls = 1
    /\ sop.ret # sop.expired[1]

\* C22: the cache never holds more than CACHE_MAX_SIZE entries, and a step
\* that stores a new key into a cache full of unexpired entries removes the
\* entry whose last use (its store or its last hit) is the oldest, and
\* leaves every other entry as it was.
C22_BoundedLruEviction ==
    [][ /\ Len(cache') <= CACHE_MAX_SIZE
        /\ ( /\ recency.on
             /\ Len(cache) = CACHE_MAX_SIZE
             /\ \A i \in 1..Len(cache) : now < cache[i].expires
             /\ KeysOf(cache') \ KeysOf(cache) # {} ) =>
                /\ KeysOf(cache) \ KeysOf(cache') = {recency.keys[1]}
                /\ \A i \in 1..Len(cache) :
                      cache[i].key # recency.keys[1] =>
                          \E j \in 1..Len(cache') : cache'[j] = cache[i] ]_vars

\* A new key was stored into a full cache of unexpired entries and removed
\* one entry, while an entry stored before that one, and hit since, is
\* still held.
C22_Witness ==
    /\ recency.on /\ recency.evicted /\ Len(cache) = CACHE_MAX_SIZE
    /\ Len(recency.victims) = 1
    /\ \E i \in 1..Len(cache) : cache[i].expires < recency.victims[1].expires

\* C27: an entry of the result cache leaves the cache or changes only in a
\* step that finds it expired, that stores a new key while CACHE_MAX_SIZE
\* unexpired entries are held, or that is clear_cache; a search answered
\* from the cache returns the value of the entry of its key and keeps that
\* entry; clear_cache leaves the cache empty, and a search made while the
\* cache is empty calls the embedding backend.
C27_EntriesKept ==
    [][ /\ \A i \in 1..Len(cache) :
              \/ \E j \in 1..Len(cache') : cache'[j] = cache[i]
              \/ cache[i].expires <= now
              \/ /\ KeysOf(cache') \ KeysOf(cache) # {}
                 /\ Len(SelectSeq(cache, LAMBDA e : now < e.expires)) = CACHE_MAX_SIZE
              \/ ClearCache
        /\ (sop'.kind = "search" /\ sop'.embedCalls = 0) =>
              \E i \in 1..Len(cache) :
                  /\ cache[i].key = CacheKey(sop'.query, sop'.top_k, sop'.collection)
                  /\ sop'.ret = cache[i].value
                  /\ \E j \in 1..Len(cache') : cache'[j] = cache[i]
        /\ ClearCache => cache' = <<>>
        /\ (cache = <<>> /\ sop'.kind = "search") => sop'.embedCalls = 1 ]_vars

\* A search answered from an entry that outlived a delete_document and a
\* multi_collection_search: the list returned is not what the store holds.
C27_Witness ==
    /\ sop.kind = "search" /\ sop.embedCalls = 0 /\ fop.kind = "multi"
    /\ sop.ret # ProcessSearchResults(
                     QdrantSearch(sop.collection, sop.query, sop.top_k, sop.threshold, FALSE))

\* C28: when upload_document returns success = False, none of the
\* document's points has been written: the collection holds the points it
\* held before the call.
C28_FailedIngestWritesNothing ==
    (dop.kind = "upload" /\ ~dop.ok) => points[dop.collection] = dop.before

\* C29: every point a successful upload_document stored carries the payload
\* document_id equal to the document id the call returned, whatever the
\* caller's metadata holds.
C29_PayloadCarriesReturnedId ==
    (dop.kind = "upload" /\ dop.ok) =>
        \A p \in points[dop.collection] :
            p.id \in dop.ids => p.document_id = dop.document_id

\* C30: whatever the interleaving of concurrent first requests, the lazy
\* providers construct at most one instance of each service.
C30_OneInstancePerService ==
    \A s \in Services : prov.created[s] <= 1

\* C24: get_similar_documents(id, top_k) returns at most top_k results and
\* none of the seed's id; nothing when the seed is absent or has no content;
\* and, when it searched the store, the top_k best of the results of the
\* search for the seed's content that are not the seed.
C24_SimilarExcludesSeed ==
    sop.kind = "similar" =>
        /\ Len(sop.ret) <= sop.top_k
        /\ \A i \in 1..Len(sop.ret) : sop.ret[i].id # sop.seed
        /\ (sop.absent \/ sop.content = "") => sop.ret = <<>>
        /\ (~sop.absent /\ sop.content # "" /\ sop.fault = "none" /\ ~sop.hit) =>
              LET all == ProcessSearchResults(
                             QdrantSearch(sop.collection, sop.content,
                                          Cardinality(points[sop.collection]), <<>>, FALSE))
                  others == SelectSeq(all, LAMBDA r : r.id # sop.seed)
              IN  sop.ret = SubSeq(others, 1, Min(sop.top_k, Len(others)))

\* A search that found the seed first and returned the top_k results
\* ranked behind it.
C24_Witness ==
    /\ sop.kind = "similar" /\ ~sop.hit /\ sop.fault = "none"
    /\ Len(sop.ret) = sop.top_k /\ sop.top_k >= 2
    /\ sop.ret[1].rank = 2

\* C25: the threshold the vector store filters by is the score_threshold
\* the caller passed to search, for every value passed, 0 included; the
\* configured default is used only when none is passed.
C25_ThresholdAsPassed ==
    (sop.kind = "search" /\ sop.storeCalls = 1) =>
        sop.filteredBy = IF sop.threshold = <<>> THEN SEARCH_SCORE_THRESHOLD
                         ELSE sop.threshold[1]

\* C8: a search during which the embedding backend or the vector store
\* fails gives the caller something else than what a successful search
\* without hits gives, which is the empty list.
C8_FailureDistinguishable ==
    (sop.kind = "search" /\ sop.fault # "none") => sop.ret # <<>>

----------------------------------------------------------------------------
(* Properties of DocumentUploadService, under SpecIngest.                   *)

\* C5: a successful delete_document(X, C) removes exactly the points of C
\* whose payload document_id is X and leaves the others as they were.
C5_DeleteRemovesExactly ==
    (dop.kind = "delete" /\ dop.ok) =>
        points[dop.collection] = {p \in dop.before : p.document_id # dop.arg}

\* C6: an ingest that repeats the successful ingest of the same content
\* into the same collection returns the same document id, builds the same
\* point ids and leaves the number of points of the collection as it was.
C6_ReingestIdempotent ==
    (dop.kind = "upload" /\ dop.ok /\ dop.first.repeats) =>
        /\ dop.document_id = dop.first.document_id
        /\ dop.ids = dop.first.ids
        /\ Cardinality(points[dop.collection]) = Cardinality(dop.before)

\* A repeated successful ingest of a document upserted in several batches.
C6_Witness ==
    /\ dop.kind = "upload" /\ dop.ok /\ dop.first.repeats
    /\ Cardinality(dop.ids) > UPLOAD_BATCH_SIZE
    /\ Cardinality(points[dop.collection]) > Cardinality(dop.ids)

\* C11: a collection that upload_document created has the dimension of the
\* active embedding provider, and every stored vector has the length of its
\* collection's dimension, whichever provider the EmbeddingManager selected.
\* (Under SpecIngest only upload_document creates collections.)
C11_CreatedWithProviderDimension ==
    \A c \in Collections :
        /\ dim[c] # 0 => dim[c] = Dimension
        /\ \A p \in points[c] : p.vdim = dim[c]

\* C16: upload_documents_batch goes through every document, also after one
\* has failed: total is the number of documents, success + failed = total,
\* and details holds one result per document in the order of the documents,
\* the i-th being the result of the i-th document (a failure for a blank or
\* a failing one, and for one that succeeded its id and its points, stored).
C16_BatchProcessesAll ==
    dop.kind = "batch" =>
        LET n == Len(dop.documents)
            res == dop.results
        IN  /\ res.total = n
            /\ res.success + res.failed = n
            /\ Len(res.details) = n
            /\ res.success = Cardinality({i \in 1..n : res.details[i].ok})
            /\ \A i \in 1..n :
                  LET doc == dop.documents[i]
                      detail == res.details[i]
                  IN  /\ detail.chunks_count = ChunkCount(doc.content)
                      /\ (doc.fault # "none" \/ doc.content = "blank") => ~detail.ok
                      /\ (doc.fault = "none" /\ doc.content # "blank"
                             /\ Dimension = VECTOR_SIZE) => detail.ok
                      /\ detail.ok =>
                            /\ detail.document_id = DocIdOf(doc.content)
                            /\ \A k \in 0..detail.chunks_count - 1 :
                                  \E p \in points[dop.collection] :
                                      p.id = PointId(detail.document_id, k)

\* A batch whose first document failed and whose last document was stored.
C16_Witness ==
    /\ dop.kind = "batch" /\ Len(dop.documents) >= 2
    /\ ~dop.results.details[1].ok
    /\ dop.results.details[Len(dop.documents)].ok
    /\ dop.results.success >= 1 /\ dop.results.failed >= 1

\* C17: upload_document of a content the splitter makes no chunk of returns
\* a failure with chunks_count 0, calls neither the embedding provider nor
\* the upsert, and leaves the stored points as they were.
C17_NoChunksNoEffect ==
    (dop.kind = "upload" /\ ChunkCount(dop.arg) = 0) =>
        /\ ~dop.ok /\ dop.chunks_count = 0
        /\ dop.embedded = 0 /\ dop.upserted = 0
        /\ points[dop.collection] = dop.before

\* A blank document uploaded into a collection that holds points.
C17_Witness ==
    /\ dop.kind = "upload" /\ dop.arg = "blank" /\ ~dop.ok
    /\ dop.before # {} /\ points[dop.collection] = dop.before

\* C23: upsert_points hands the points to the store in consecutive batches
\* of at most batch_size, in the order of the input, each point in exactly
\* one batch (all of them when the call succeeds); after a successful call
\* the collection holds, for every id of the input, the input's point and
\* no other point of that id, and its other points as they were.
C23_BatchedUpsertReplaces ==
    dop.kind = "upsert" =>
        LET n == Len(dop.pts)
            b == dop.batch_size
        IN  /\ \A j \in 1..Len(dop.sent) :
                  /\ Len(dop.sent[j]) >= 1 /\ Len(dop.sent[j]) <= b
                  /\ dop.sent[j] = SubSeq(dop.pts, (j - 1) * b + 1, Min(j * b, n))
            /\ Len(dop.sent) * b < n + b
            /\ dop.ok =>
                  /\ Len(dop.sent) * b >= n
                  /\ \A k \in 1..n :
                        {p \in points[dop.collection] : p.id = dop.pts[k].id} = {dop.pts[k]}
                  /\ \A p \in dop.before :
                        (\A k \in 1..n : dop.pts[k].id # p.id) => p \in points[dop.collection]
                  /\ \A p \in points[dop.collection] :
                        p \in dop.before \/ \E k \in 1..n : dop.pts[k] = p

\* A successful call that sent a full batch and a shorter last one and
\* replaced a stored point by another of its id.
C23_Witness ==
    /\ dop.kind = "upsert" /\ dop.ok /\ Len(dop.sent) >= 2
    /\ Len(dop.sent[Len(dop.sent)]) < dop.batch_size
    /\ \E p \in dop.before : \E k \in 1..Len(dop.pts) :
          dop.pts[k].id = p.id /\ dop.pts[k] # p

\* C13: the delete and the info endpoints answer 404 (the service returned
\* False or None) only when no point of the collection carries the document
\* id; a failure of the store is answered otherwise.
C13_NotFoundOnlyWhenAbsent ==
    (dop.kind \in {"delete", "info"} /\ dop.status = 404) =>
        /\ ~dop.fault
        /\ \A p \in dop.before : p.document_id # dop.arg

----------------------------------------------------------------------------
(* Properties of the EmbeddingManager, under SpecEmbed.                     *)

\* The offset of the sub-batch the k-th text of a batch call is sent in.
BatchOf(k, batch_size) == ((k - 1) \div batch_size) * batch_size

C26_RetryTerminatesWithBackoff ==
    (eop.kind = "single" /\ eop.max_retries >= 1) =>
        /\ eop.calls = Min(eop.failures + 1, eop.max_retries)
        /\ eop.ok <=> eop.failures < eop.max_retries
        /\ Len(eop.sleeps) = eop.calls - 1
        /\ \A k \in 1..Len(eop.sleeps) :
              /\ eop.sleeps[k] >= 10 * (2 ^ (k - 1)) + 5
              /\ eop.sleeps[k] <= 10 * (2 ^ (k - 1)) + 15
        /\ ~eop.ok => (eop.error = "provider" /\ eop.out = <<>>)

\* A call that failed n = 3 times: two waits, the provider's error raised.
C26_Witness ==
    /\ eop.kind = "single" /\ eop.max_retries = 3 /\ eop.failures >= 3
    /\ eop.calls = 3 /\ Len(eop.sleeps) = 2 /\ eop.error = "provider"

\* C14: a call of create_embedding_with_retry that meets a permanent error
\* of the provider (authentication, configuration) raises after exactly one
\* attempt; only transient failures are retried.
C14_PermanentNotRetried ==
    (eop.kind = "single" /\ eop.permanent) => (~eop.ok /\ eop.calls = 1)

\* C15: create_embeddings_batch returns one vector for each text, in the
\* order of the texts: the i-th is the provider's embedding of texts[i], or
\* the zero vector standing for texts[i] when its sub-batch call and every
\* single attempt for it failed, whatever the length, the batch size and
\* the failures.
C15_OneVectorPerText ==
    eop.kind = "batch" =>
        /\ Len(eop.out) = Len(eop.texts)
        /\ \A k \in 1..Len(eop.texts) :
              /\ eop.out[k].of = eop.texts[k]
              /\ eop.out[k].vdim = Dimension
              /\ eop.out[k].zero <=>
                    /\ BatchOf(k, eop.batch_size) \in eop.plan.batches
                    /\ eop.plan.fails[k] >= MAX_RETRIES

\* A batch call over more than one sub-batch in which a text before the
\* last one got the zero vector and the last text the provider's embedding.
C15_Witness ==
    /\ eop.kind = "batch" /\ Len(eop.texts) > eop.batch_size
    /\ eop.out[1].zero /\ ~eop.out[Len(eop.texts)].zero

----------------------------------------------------------------------------
(* Properties of the multi collection search and the pooling, under         *)
(* SpecFusion.                                                              *)

ScoresOf(results) == [i \in 1..Len(results) |-> results[i].score]
Sources(results) == [i \in 1..Len(results) |-> <<results[i].collection, results[i].score>>]

\* C3: the chat search over the configured collections returns the top_k
\* best scored results of the pool, best first, ranked 1..n with
\* n = min(top_k, size of the pool); collections of scores 90/80/50 and
\* 95/70/60 pooled with top_k = 5 give c2:95, c1:90, c1:80, c2:70, c2:60.
C3_PooledTopK ==
    fop.kind = "chat" =>
        LET pool == AllResults(fop.multi, 1)
        IN  /\ ~fop.raised
            /\ Len(fop.ret) = Min(fop.top_k, Len(pool))
            /\ Descending(fop.ret)
            /\ RankedFromOne(fop.ret)
            /\ \A k \in 1..Len(fop.ret) : \E i \in 1..Len(pool) :
                  /\ pool[i].id = fop.ret[k].id
                  /\ pool[i].collection = fop.ret[k].collection
                  /\ pool[i].score = fop.ret[k].score
            /\ \A i \in 1..Len(pool) :
                  (\A k \in 1..Len(fop.ret) :
                       <<pool[i].id, pool[i].collection>> # <<fop.ret[k].id, fop.ret[k].collection>>)
                  => \A k \in 1..Len(fop.ret) : fop.ret[k].score >= pool[i].score
            /\ ( /\ fop.top_k = 5 /\ fop.names \in Listings
                 /\ ScoresOf(EntryOf(fop.multi, "c1")) = <<90, 80, 50>>
                 /\ ScoresOf(EntryOf(fop.multi, "c2")) = <<95, 70, 60>> )
                => Sources(fop.ret) = << <<"c2", 95>>, <<"c1", 90>>, <<"c1", 80>>,
                                         <<"c2", 70>>, <<"c2", 60>> >>

\* The order the collection names sort in.
NameOrder(c) == IF c = "c1" THEN 1 ELSE 2

\* Before, in the order by descending score, then ascending rank within the
\* collection, then collection name.
FusedBefore(x, y) ==
    \/ x.score > y.score
    \/ x.score = y.score /\ x.rank < y.rank
    \/ x.score = y.score /\ x.rank = y.rank /\ NameOrder(x.collection) < NameOrder(y.collection)

\* C4: pooled results of equal score come in the order of their rank within
\* their collection and, at equal rank, of their collection name, so the
\* fused list does not depend on the order the collections are listed in.
C4_TiesByRankThenName ==
    (fop.kind = "chat" /\ ~fop.raised) =>
        LET pool == AllResults(fop.multi, 1)
        IN  \A i, j \in 1..Len(fop.ret) :
              i < j => \E a, b \in 1..Len(pool) :
                  /\ <<pool[a].id, pool[a].collection>> = <<fop.ret[i].id, fop.ret[i].collection>>
                  /\ <<pool[b].id, pool[b].collection>> = <<fop.ret[j].id, fop.ret[j].collection>>
                  /\ FusedBefore(pool[a], pool[b])

\* C9: multi_collection_search returns one entry for each collection asked,
\* in the order asked; a collection the store fails on has the empty list
\* and every other one the list it has when the failing one is not asked.
C9_FailureIsolated ==
    fop.kind = "multi" =>
        /\ Len(fop.multi) = Len(fop.names)
        /\ \A i \in 1..Len(fop.names) :
              /\ fop.multi[i].name = fop.names[i]
              /\ fop.multi[i].results =
                    IF fop.names[i] \in fop.failing THEN <<>>
                    ELSE EntryOf(fop.alone, fop.names[i])

\* A multi collection search during which the store failed on a collection
\* that holds points, and which found results in another.
C9_Witness ==
    /\ fop.kind = "multi" /\ ~fop.embedFailed
    /\ \E i, j \in 1..Len(fop.names) :
          /\ fop.names[i] \in fop.failing /\ points[fop.names[i]] # {}
          /\ fop.names[j] \notin fop.failing /\ fop.multi[j].results # <<>>

----------------------------------------------------------------------------
(* Properties of the collection metadata cache, under SpecMeta.             *)

\* C10: get_collection_info(name) never returns an entry that was cached
\* before a create_collection(name) or delete_collection(name) that has
\* changed the store since.
C10_NoEntryFromBeforeChange ==
    mop.kind = "info" => ~(mop.fromCache /\ mop.stale)

----------------------------------------------------------------------------
(* Properties of concurrent searches, under SpecConc.                       *)

\* C12: the check-then-populate sequences of concurrent searches do not
\* interleave: at most one request is inside search(), no request reads the
\* cache while an entry is written but not yet linked, and every entry of
\* the cache holds a complete list computed by one of the requests.
C12_CacheAccessSerialized ==
    /\ Cardinality({r \in Requests : InSearch(r)}) <= 1
    /\ \A r \in Requests : req[r].pc = "check" =>
            \A i \in 1..Len(cache) : cache[i].expires # -1
    /\ \A i \in 1..Len(cache) : \E r \in Requests : cache[i].value \in req[r].made

\* A request waits with the query another request is populating the cache for.
C12_Witness ==
    \E r, o \in Requests :
        /\ r # o /\ req[r].pc = "link" /\ req[o].pc = "queued"
        /\ req[r].top_k = req[o].top_k
        /\ \E i \in 1..Len(cache) : cache[i].expires = -1

----------------------------------------------------------------------------
(* Properties of the answer stream and the chat stream, under SpecStream.   *)

\* The fragments of the first k chunks of the provider: one for each chunk
\* that carries content, in their order.
Fragments(chunks, k) ==
    LET HasContent(e) == chunks[e.index]
    IN  SelectSeq([i \in 1..k |-> [kind |-> "text", index |-> i]], HasContent)

IsTerminal(event) == event.kind \in {"done", "error"}

\* C18: when the provider fails after generate_answer_stream has yielded k
\* fragments, the generator raises nothing: the consumer has the k fragments
\* as the provider gave them, then one error fragment, which is the last.
C18_FailureYieldsErrorLast ==
    (stream.level = "llm" /\ stream.provider = "failed") =>
        /\ ~stream.raised
        /\ stream.sent = Fragments(stream.chunks, stream.failAfter[1])
                            \o <<[kind |-> "error", index |-> 0]>>

\* An answer stream that ended after the provider failed behind a fragment.
C18_Witness ==
    /\ stream.level = "llm" /\ stream.provider = "failed" /\ stream.gpc = "ended"
    /\ Len(stream.sent) >= 2
    /\ stream.sent[Len(stream.sent)].kind = "error"

\* C19: a streaming chat response that was sent to its end holds exactly
\* one terminal marker, as its last event: the done marker after a normal
\* completion, the error event when the search or the generation failed.
C19_TerminalMarkerTellsOutcome ==
    (stream.level = "chat" /\ stream.pc \in {"terminal", "ended"}) =>
        LET n == Len(stream.sent)
            failed == stream.search # "ok" \/ stream.provider = "failed"
        IN  /\ n >= 1
            /\ \A i \in 1..n : IsTerminal(stream.sent[i]) <=> i = n
            /\ stream.sent[n].kind = IF failed THEN "error" ELSE "done"

\* C20: once the consumer has closed the stream, no further chunk is asked
\* of the provider and the provider's streaming response is closed.
C20_CloseStopsProvider ==
    stream.closed => stream.provider # "streaming"

====
